---- MODULE Spec2Model ----
(***************************************************************************)
(* A model of pxc-tools: the PXC container codec (src/src/pxc.rs), the     *)
(* JSON pointer patch layer and the node/port resolver (src/src/ops.rs),   *)
(* the short-id scheme (src/src/ids.rs) and the edge derivation of the     *)
(* graph builder (src/src/graph.rs).                                       *)
(*                                                                         *)
(* Conventions.  A Rust String / &str / Vec<u8> is a sequence of byte      *)
(* values 0..255.  A serde_json Value is a tagged record: the field k      *)
(* names the variant and the field v carries its payload.  An object's    *)
(* payload is a function from keys (byte sequences) to Values; an array's  *)
(* payload is a sequence of Values.                                        *)
(***************************************************************************)
EXTENDS Integers, Sequences, FiniteSets, TLC

VARIABLES
    n, sid, prevSid,                      \* short ids: index, its code, the code before it
    data, stage, pos, header_size,        \* codec: the bytes, where parse_pxc stands, its
    thumbnail, meta, file, err,           \* locals, the PxcFile it returned or the error,
    maxRead, lastPos, src, writes,        \* bytes touched, pos before the last chunk, the
    origin,                               \* PxcFile the bytes were written from, and the
                                          \* bytes of the file first read
    doc, prev, op, ptr, val, res, got,    \* patch layer: document, document before the
                                          \* last operation, the operation, its pointer,
                                          \* value and result, and what a get returned
    project, json_inputs, phase,          \* graph: the document and the flag given, where
    nodeAt, inputAt, edges, firstEdges,   \* the edge loops stand (0-based), the edges
                                          \* pushed, and the edges of the derivation before
    inner, innerPrev, loaded, call, ret, log, \* project: the document, the document before the
    ops, changed, bstage,                 \* last call, the registry loaded, the call with
                                          \* its arguments, what it returned, the calls so
                                          \* far; a batch: its edits, the counter, the stage
    dumpDoc, flags, exports,              \* export: the document, the flags given, and the
                                          \* export made in each detail mode so far
    previewDoc, overflow_checks, preview  \* preview: the document, whether the build checks
                                          \* integer overflow, what decode_preview returned

idsVars == <<n, sid, prevSid>>
ptrVars == <<doc, prev, op, ptr, val, res, got>>
codecVars == <<data, stage, pos, header_size, thumbnail, meta, file, err,
               maxRead, lastPos, src, writes, origin>>
graphVars == <<project, json_inputs, phase, nodeAt, inputAt, edges, firstEdges>>
editVars == <<inner, innerPrev, loaded, call, ret, log, ops, changed, bstage>>
dumpVars == <<dumpDoc, flags, exports>>
previewVars == <<previewDoc, overflow_checks, preview>>
vars == <<idsVars, ptrVars, codecVars, graphVars, editVars, dumpVars, previewVars>>

(***************************************************************************)
(* serde_json::Value                                                       *)
(***************************************************************************)
Null == [k |-> "null"]
Bool(b) == [k |-> "bool", v |-> b]
Num(i) == [k |-> "num", v |-> i]
Str(s) == [k |-> "str", v |-> s]
Arr(s) == [k |-> "arr", v |-> s]
Obj(f) == [k |-> "obj", v |-> f]
EmptyObj == Obj(<<>>)

Ka == <<97>>                         \* the key "a"

IsNull(x) == x.k = "null"
IsStr(x) == x.k = "str"
IsNum(x) == x.k = "num"
IsArr(x) == x.k = "arr"
IsObj(x) == x.k = "obj"

\* Option<T>: None, or Some(x)
None == [some |-> FALSE]
Some(x) == [some |-> TRUE, x |-> x]

\* Map::contains_key, Map::insert, Map::remove on an object's payload
HasKey(o, key) == key \in DOMAIN o.v
MapInsert(o, key, x) ==
    Obj([q \in (DOMAIN o.v) \cup {key} |-> IF q = key THEN x ELSE o.v[q]])
MapRemove(o, key) == Obj([q \in (DOMAIN o.v) \ {key} |-> o.v[q]])

\* Value::get(key): Some(member) on an object holding the key, else None
GetKey(x, key) == IF IsObj(x) /\ HasKey(x, key) THEN Some(x.v[key]) ELSE None

Reverse(s) == [i \in 1..Len(s) |-> s[Len(s) + 1 - i]]

(***************************************************************************)
(* Short ids (src/src/ids.rs)                                              *)
(***************************************************************************)
LetterA == 65
Radix == 26

\* the letters in the order the loop pushes them (least significant first)
RECURSIVE ShortIdCharsPlain(_)
ShortIdCharsPlain(i) ==
    LET rem == i % Radix
        q == i \div Radix
    IN  IF q = 0 THEN <<LetterA + rem>>
        ELSE <<LetterA + rem>> \o ShortIdCharsPlain(q)

RECURSIVE ShortIdChars(_)
ShortIdChars(i) ==
    LET rem == i % Radix
        q == i \div Radix
    IN  IF q = 0 THEN <<LetterA + rem>>
        ELSE <<LetterA + rem>> \o ShortIdChars(q - 1)

short_id(i) == Reverse(ShortIdChars(i))

(***************************************************************************)
(* JSON patch layer (src/src/ops.rs), and serde_json's Value::pointer as   *)
(* cmd_get and Project::get call it                                        *)
(***************************************************************************)
Slash == 47
Tilde == 126
Plus == 43
Digit0 == 48
Digit1 == 49
Digit9 == 57

\* str::split('/'): the pieces between the separators; "" splits into [""]
RECURSIVE SplitAcc(_, _)
SplitAcc(s, piece) ==
    IF s = <<>> THEN <<piece>>
    ELSE IF Head(s) = Slash THEN <<piece>> \o SplitAcc(Tail(s), <<>>)
    ELSE SplitAcc(Tail(s), Append(piece, Head(s)))

Split(s) == SplitAcc(s, <<>>)

\* str::replace of the two-byte pattern <<a, b>> by the byte c, left to right
RECURSIVE Replace2(_, _, _, _)
Replace2(s, a, b, c) ==
    IF Len(s) < 2 THEN s
    ELSE IF s[1] = a /\ s[2] = b THEN <<c>> \o Replace2(SubSeq(s, 3, Len(s)), a, b, c)
    ELSE <<s[1]>> \o Replace2(Tail(s), a, b, c)

\* t.replace("~1", "/").replace("~0", "~")
Unescape(t) == Replace2(Replace2(t, Tilde, Digit1, Slash), Tilde, Digit0, Tilde)

\* pointer.split('/').skip(1).map(unescape).collect()
Tokens(p) == LET pieces == Tail(Split(p)) IN [i \in 1..Len(pieces) |-> Unescape(pieces[i])]

IsDigit(b) == b >= Digit0 /\ b <= Digit9

RECURSIVE DigitsValue(_, _)
DigitsValue(s, acc) ==
    IF s = <<>> THEN acc ELSE DigitsValue(Tail(s), acc * 10 + (Head(s) - Digit0))

\* str::parse::<usize>(): an optional '+', then one or more decimal digits
ParseUsize(t) ==
    LET body == IF t # <<>> /\ Head(t) = Plus THEN Tail(t) ELSE t
    IN  IF body # <<>> /\ \A i \in 1..Len(body) : IsDigit(body[i])
        THEN Some(DigitsValue(body, 0))
        ELSE None

\* serde_json's parse_index: no '+', no leading zero, then str::parse
ParseIndex(t) ==
    IF t # <<>> /\ (Head(t) = Plus \/ (Head(t) = Digit0 /\ Len(t) # 1))
    THEN None
    ELSE ParseUsize(t)

\* Vec::resize(len, json!({})): padding with empty objects
ResizePadObjects(a, len) == [i \in 1..(IF len > Len(a) THEN len ELSE Len(a)) |->
                               IF i <= Len(a) THEN a[i] ELSE EmptyObj]

\* Vec::resize(len, json!(0)): padding with a scalar
ResizePadZero(a, len) == [i \in 1..(IF len > Len(a) THEN len ELSE Len(a)) |->
                            IF i <= Len(a) THEN a[i] ELSE Num(0)]

\* Vec::resize(len, Value::Null) when len is beyond the current length
Resize(a, len) == [i \in 1..(IF len > Len(a) THEN len ELSE Len(a)) |->
                      IF i <= Len(a) THEN a[i] ELSE Null]

\* Vec::remove(idx): the element taken out, the later ones shifted down
RemoveAt(a, idx) == [i \in 1..(Len(a) - 1) |-> IF i <= idx THEN a[i] ELSE a[i + 1]]

\* arr[idx] = Value::Null
ClearAt(a, idx) == [a EXCEPT ![idx + 1] = Null]

\* The result of an in-place operation: ok, and the value as the operation left it
\* (an error leaves whatever was mutated before it).
Done(ok, x) == [ok |-> ok, v |-> x]

\* the loop of set_json_pointer from the value cur on, over the remaining tokens
RECURSIVE SetTokens(_, _, _)
SetTokens(cur, toks, value) ==
    IF toks = <<>> THEN Done(TRUE, cur)
    ELSE LET key == Head(toks)
             is_last == Len(toks) = 1
         IN  IF IsObj(cur) THEN
                 IF is_last THEN Done(TRUE, MapInsert(cur, key, value))
                 ELSE LET child == IF HasKey(cur, key) THEN cur.v[key] ELSE EmptyObj
                          r == SetTokens(child, Tail(toks), value)
                      IN  Done(r.ok, MapInsert(cur, key, r.v))
             ELSE IF IsArr(cur) THEN
                 LET idx == ParseUsize(key)
                 IN  IF ~idx.some THEN Done(FALSE, cur)
                     ELSE LET arr == Resize(cur.v, idx.x + 1)
                          IN  IF is_last
                              THEN Done(TRUE, Arr([arr EXCEPT ![idx.x + 1] = value]))
                              ELSE LET child == IF IsNull(arr[idx.x + 1]) THEN EmptyObj
                                                ELSE arr[idx.x + 1]
                                       r == SetTokens(child, Tail(toks), value)
                                   IN  Done(r.ok, Arr([arr EXCEPT ![idx.x + 1] = r.v]))
             ELSE Done(FALSE, cur)

IsRootPointer(p) == p = <<>> \/ p = <<Slash>>

set_json_pointer(root, pointer, value) ==
    IF IsRootPointer(pointer) THEN Done(TRUE, value)
    ELSE SetTokens(root, Tokens(pointer), value)

\* the loop of remove_json_pointer from the value cur on
RECURSIVE RemoveTokens(_, _)
RemoveTokens(cur, toks) ==
    IF toks = <<>> THEN Done(TRUE, cur)
    ELSE LET key == Head(toks)
             is_last == Len(toks) = 1
         IN  IF IsObj(cur) THEN
                 IF is_last THEN Done(TRUE, MapRemove(cur, key))
                 ELSE IF ~HasKey(cur, key) THEN Done(FALSE, cur)
                 ELSE LET r == RemoveTokens(cur.v[key], Tail(toks))
                      IN  Done(r.ok, MapInsert(cur, key, r.v))
             ELSE IF IsArr(cur) THEN
                 LET idx == ParseUsize(key)
                 IN  IF ~idx.some THEN Done(FALSE, cur)
                     ELSE IF idx.x >= Len(cur.v) THEN Done(FALSE, cur)
                     ELSE IF is_last
                          THEN Done(TRUE, Arr(ClearAt(cur.v, idx.x)))
                          ELSE LET r == RemoveTokens(cur.v[idx.x + 1], Tail(toks))
                               IN  Done(r.ok, Arr([cur.v EXCEPT ![idx.x + 1] = r.v]))
             ELSE Done(FALSE, cur)

remove_json_pointer(root, pointer) ==
    IF IsRootPointer(pointer) THEN Done(TRUE, Null)
    ELSE RemoveTokens(root, Tokens(pointer))

\* the try_fold of Value::pointer: objects by key, arrays by parse_index
RECURSIVE PointerFold(_, _)
PointerFold(target, toks) ==
    IF toks = <<>> THEN Some(target)
    ELSE LET token == Head(toks)
         IN  IF IsObj(target) THEN
                 IF HasKey(target, token) THEN PointerFold(target.v[token], Tail(toks))
                 ELSE None
             ELSE IF IsArr(target) THEN
                 LET idx == ParseIndex(token)
                 IN  IF idx.some /\ idx.x < Len(target.v)
                     THEN PointerFold(target.v[idx.x + 1], Tail(toks))
                     ELSE None
             ELSE None

\* json.pointer(pointer): Some(value), or None ("pointer not found")
get_pointer(root, pointer) ==
    IF pointer = <<>> THEN Some(root)
    ELSE IF Head(pointer) # Slash THEN None
    ELSE PointerFold(root, Tokens(pointer))

(***************************************************************************)
(* Container codec (src/src/pxc.rs)                                        *)
(***************************************************************************)
\* TLC's integers are 32-bit signed: the u32 fields of the model's files stay below
\* 2^31, and U32Big (FF FF FF 7F as a field) stands for a size far beyond any file.
U32Big == 2147483647

Magic == <<80, 88, 67, 88>>          \* b"PXCX"
TagTHMB == <<84, 72, 77, 66>>        \* "THMB"
TagMETA == <<77, 69, 84, 65>>        \* "META"
KVersion == <<118, 101, 114, 115, 105, 111, 110>>        \* "version"
KVersions == <<118, 101, 114, 115, 105, 111, 110, 115>>  \* "versions"

\* WriteBytesExt::write_u32::<LittleEndian>
U32LE(x) == << x % 256, (x \div 256) % 256, (x \div 65536) % 256, (x \div 16777216) % 256 >>

\* ReadBytesExt::read_u32::<LittleEndian> of the four bytes from index at (1-based).
\* A field of 2^31 or more is read as U32Big: every comparison the parser makes with
\* it (against a file length or a remaining header size) has the same outcome.
U32At(d, at) ==
    IF d[at + 3] >= 128 THEN U32Big
    ELSE d[at] + 256 * d[at + 1] + 65536 * d[at + 2] + 16777216 * d[at + 3]

\* &buf[from..] with 0-based from
SliceFrom(d, from) == SubSeq(d, from + 1, Len(d))

\* buf.iter().position(|&b| b == 0).unwrap_or(buf.len())
RECURSIVE ZeroPos(_)
ZeroPos(b) == IF b = <<>> \/ Head(b) = 0 THEN 0 ELSE 1 + ZeroPos(Tail(b))

\* String::from_utf8_lossy over the bytes of the model: ASCII and the encoding of
\* U+FFFD (EF BF BD, the one multi-byte sequence the model holds) are kept, any
\* other byte becomes U+FFFD
Replacement == <<239, 191, 189>>

RECURSIVE Utf8Lossy(_)
Utf8Lossy(b) ==
    IF b = <<>> THEN <<>>
    ELSE IF Head(b) < 128 THEN <<Head(b)>> \o Utf8Lossy(Tail(b))
    ELSE IF Len(b) >= 3 /\ SubSeq(b, 1, 3) = Replacement
         THEN Replacement \o Utf8Lossy(SubSeq(b, 4, Len(b)))
    ELSE Replacement \o Utf8Lossy(Tail(b))

trim_cstr(buf) == Utf8Lossy(SubSeq(buf, 1, ZeroPos(buf)))

(* zlib (the flate2 crate), as a stream with one stored block:             *)
(* 78 01 | 01 LEN NLEN | bytes | Adler-32.                                 *)
RECURSIVE AdlerAcc(_, _, _)
AdlerAcc(b, a1, a2) ==
    IF b = <<>> THEN <<a2 \div 256, a2 % 256, a1 \div 256, a1 % 256>>
    ELSE LET x == (a1 + Head(b)) % 65521 IN AdlerAcc(Tail(b), x, (a2 + x) % 65521)

\* the checksum s2 * 65536 + s1, big-endian
Adler32BE(b) == AdlerAcc(b, 1, 0)

zlib_compress(b) ==
    <<120, 1, 1, Len(b) % 256, Len(b) \div 256,
      255 - (Len(b) % 256), 255 - (Len(b) \div 256)>> \o b \o Adler32BE(b)

\* Ok(bytes) for a well-formed stream (whatever follows it), else Err
zlib_decompress(d) ==
    IF /\ Len(d) >= 11
       /\ d[1] = 120 /\ d[2] = 1 /\ d[3] = 1
       /\ d[4] + d[6] = 255 /\ d[5] + d[7] = 255
       /\ Len(d) >= 11 + d[4] + 256 * d[5]
       /\ LET len == d[4] + 256 * d[5]
          IN  SubSeq(d, 8 + len, 11 + len) = Adler32BE(SubSeq(d, 8, 7 + len))
    THEN Some(SubSeq(d, 8, 7 + d[4] + 256 * d[5]))
    ELSE None

(* serde_json::to_string / to_string_pretty                                *)
RECURSIVE DecDigits(_)
DecDigits(i) == IF i < 10 THEN <<Digit0 + i>> ELSE DecDigits(i \div 10) \o <<Digit0 + (i % 10)>>

HexDigit(h) == IF h < 10 THEN Digit0 + h ELSE 87 + h

RECURSIVE EscapeStr(_)
EscapeStr(b) ==
    IF b = <<>> THEN <<>>
    ELSE (IF Head(b) = 34 \/ Head(b) = 92 THEN <<92, Head(b)>>
          ELSE IF Head(b) < 32
               THEN <<92, 117, 48, 48, HexDigit(Head(b) \div 16), HexDigit(Head(b) % 16)>>
               ELSE <<Head(b)>>) \o EscapeStr(Tail(b))

Quoted(b) == <<34>> \o EscapeStr(b) \o <<34>>

RECURSIVE BytesLess(_, _)
BytesLess(a, b) ==
    IF b = <<>> THEN FALSE
    ELSE IF a = <<>> THEN TRUE
    ELSE IF Head(a) # Head(b) THEN Head(a) < Head(b)
    ELSE BytesLess(Tail(a), Tail(b))

\* the keys of a Map in its iteration order (sorted)
RECURSIVE SortedKeys(_)
SortedKeys(ks) ==
    IF ks = {} THEN <<>>
    ELSE LET least == CHOOSE a \in ks : \A b \in ks \ {a} : BytesLess(a, b)
         IN  <<least>> \o SortedKeys(ks \ {least})

RECURSIVE Spaces(_)
Spaces(c) == IF c = 0 THEN <<>> ELSE <<32>> \o Spaces(c - 1)

\* the text of x; pretty puts each member on a line of its own, indented by two
RECURSIVE Ser(_, _, _)
RECURSIVE SerItems(_, _, _, _)
SerItems(items, pretty, ind, first) ==
    IF items = <<>> THEN <<>>
    ELSE (IF first THEN <<>> ELSE <<44>>)
         \o (IF pretty THEN <<10>> \o Spaces(ind) ELSE <<>>)
         \o Head(items)
         \o SerItems(Tail(items), pretty, ind, FALSE)

Ser(x, pretty, ind) ==
    CASE x.k = "null" -> <<110, 117, 108, 108>>
      [] x.k = "bool" -> IF x.v THEN <<116, 114, 117, 101>> ELSE <<102, 97, 108, 115, 101>>
      [] x.k = "num" -> IF x.v < 0 THEN <<45>> \o DecDigits(-x.v) ELSE DecDigits(x.v)
      [] x.k = "str" -> Quoted(x.v)
      [] x.k = "arr" ->
            IF x.v = <<>> THEN <<91, 93>>
            ELSE <<91>>
                 \o SerItems([i \in 1..Len(x.v) |-> Ser(x.v[i], pretty, ind + 2)],
                             pretty, ind + 2, TRUE)
                 \o (IF pretty THEN <<10>> \o Spaces(ind) ELSE <<>>) \o <<93>>
      [] x.k = "obj" ->
            LET ks == SortedKeys(DOMAIN x.v)
            IN  IF ks = <<>> THEN <<123, 125>>
                ELSE <<123>>
                     \o SerItems([i \in 1..Len(ks) |->
                                     Quoted(ks[i]) \o (IF pretty THEN <<58, 32>> ELSE <<58>>)
                                     \o Ser(x.v[ks[i]], pretty, ind + 2)],
                                 pretty, ind + 2, TRUE)
                     \o (IF pretty THEN <<10>> \o Spaces(ind) ELSE <<>>) \o <<125>>

to_string(x) == Ser(x, FALSE, 0)
to_string_pretty(x) == Ser(x, TRUE, 0)

\* the documents the codec is run on
DocV1 == Obj(KVersion :> Num(1))
DocV1ab == Obj((KVersion :> Num(1)) @@ (KVersions :> Str(<<97, 98>>)))
DocNul == Obj((KVersion :> Num(2)) @@ (KVersions :> Str(<<97, 0, 98>>)))
DocV7 == Obj((KVersion :> Num(7)) @@ (KVersions :> Num(5)))
DocA10 == Obj(Ka :> Num(10))
CodecDocs ==
    { EmptyObj, DocV1, DocV1ab, DocNul, DocV7, DocA10,
      Obj(KVersions :> Str(<<97>>)),
      Obj(KVersion :> Str(<<120>>)),
      Obj(Ka :> Num(1)),
      Arr(<<Num(1), Str(<<0>>)>>),
      Null }

\* serde_json::from_str, on the texts serde_json writes for the documents of the
\* model: Some(document), and None for any other text
from_str(text) ==
    IF \E d \in CodecDocs : text = to_string(d) \/ text = to_string_pretty(d)
    THEN Some(CHOOSE d \in CodecDocs : text = to_string(d) \/ text = to_string_pretty(d))
    ELSE None

parse_payload(payload) ==
    LET z == zlib_decompress(payload)
        decoded == IF z.some THEN z.x ELSE payload
    IN  from_str(trim_cstr(decoded))

MetaOf(save_version, version_string) ==
    [save_version |-> save_version, version_string |-> version_string]

\* a Header that does not keep header_size
PxcFileSizeless(thumb, m, hs, json) ==
    [thumbnail |-> thumb, meta |-> m, header_size |-> 0, json |-> json]

PxcFile(thumb, m, hs, json) ==
    [thumbnail |-> thumb, meta |-> m, header_size |-> hs, json |-> json]

\* a derivation that wants both fields: no meta when versions is missing or no string
DeriveMetaNeedsBoth(json) ==
    LET ver == GetKey(json, KVersion)
        vers == GetKey(json, KVersions)
    IN  IF ver.some /\ IsNum(ver.x) /\ vers.some /\ IsStr(vers.x)
        THEN Some(MetaOf(ver.x.v, vers.x.v))
        ELSE None

\* (as_i64()? as u32 is the number itself for the versions of the model, all in 0..2^31-1)
derive_meta_from_json(json) ==
    LET ver == GetKey(json, KVersion)
        vers == GetKey(json, KVersions)
    IN  IF ver.some /\ IsNum(ver.x)
        THEN Some(MetaOf(ver.x.v,
                         IF vers.some /\ IsStr(vers.x) THEN vers.x.v ELSE <<>>))
        ELSE None

\* the bytes write_pxc hands to fs::write
Chunk(tag, body) == tag \o U32LE(Len(body)) \o body

MetaBuf(m) == U32LE(m.save_version) \o m.version_string \o <<0>>

HeaderBytes(pxc) ==
    LET m == IF pxc.meta.some THEN pxc.meta ELSE derive_meta_from_json(pxc.json)
        chunks == (IF pxc.thumbnail.some THEN Chunk(TagTHMB, pxc.thumbnail.x) ELSE <<>>)
                  \o (IF m.some THEN Chunk(TagMETA, MetaBuf(m.x)) ELSE <<>>)
    IN  Magic \o U32LE(8 + Len(chunks)) \o chunks

write_pxc(pxc, minify) ==
    LET json_str == IF minify THEN to_string(pxc.json) ELSE to_string_pretty(pxc.json)
    IN  HeaderBytes(pxc) \o zlib_compress(json_str \o <<0>>)

(* parse_pxc, in steps: the checks before the loop, one loop iteration,    *)
(* the payload after the loop.                                             *)
MinFileLen == 8

\* a bound off by one: a file of exactly eight bytes is too small as well
TooSmallInclusive(dlen) == dlen <= MinFileLen

TooSmall(dlen) == dlen < MinFileLen

HasMagic(d) == Len(d) >= 4 /\ SubSeq(d, 1, 4) = Magic

\* the upper check left out
HeaderSizeErrorNoUpper(hs, dlen) ==
    IF hs < 8 THEN "header_size too small" ELSE ""

\* "" when header_size passes both checks
HeaderSizeError(hs, dlen) ==
    IF hs < 8 THEN "header_size too small"
    ELSE IF hs > dlen THEN "header_size beyond file length"
    ELSE ""

\* any declared length passes
ChunkLenErrorNone(len, remaining) == ""

\* a declared length may pass the end of the header by one byte
ChunkLenErrorOffByOne(len, remaining) ==
    IF len > remaining + 1 THEN "chunk length exceeds header size" ELSE ""

ChunkLenError(len, remaining) ==
    IF len > remaining THEN "chunk length exceeds header size" ELSE ""

\* every tag that is not "META" counts as a thumbnail
MatchTagThumbByDefault(tag) == IF tag = TagMETA THEN "META" ELSE "THMB"

\* match tag_str { "THMB" => .., "META" => .., _ => {} }
MatchTag(tag) ==
    IF tag = TagTHMB THEN "THMB" ELSE IF tag = TagMETA THEN "META" ELSE "_"

\* One iteration of the chunk loop at pos = p (the cursor stands at p as well).
\* err is "" when the chunk was taken; reads is one past the last byte touched.
ParseChunk(d, hs, p) ==
    LET fail(msg, rd) == [err |-> msg, pos |-> p, reads |-> rd, tag |-> <<>>, body |-> <<>>]
    IN  IF hs < p THEN fail("header_size underflow", 0)
        ELSE IF hs - p < 8 THEN fail("truncated chunk header", 0)
        ELSE IF p + 8 > Len(d) THEN fail("failed to fill whole buffer", Len(d))
        ELSE LET tag == SubSeq(d, p + 1, p + 4)
                 len == U32At(d, p + 5)
                 p8 == p + 8
             IN  IF hs < p8 THEN fail("header_size underflow", p8)
                 ELSE IF ChunkLenError(len, hs - p8) # ""
                      THEN fail(ChunkLenError(len, hs - p8), p8)
                 ELSE IF p8 + len > Len(d) THEN fail("failed to fill whole buffer", Len(d))
                 ELSE IF tag = TagMETA /\ len < 4 THEN fail("META chunk too small", p8 + len)
                 ELSE [err |-> "", pos |-> p8 + len, reads |-> p8 + len,
                       tag |-> tag, body |-> SubSeq(d, p8 + 1, p8 + len)]

Max(a, b) == IF a > b THEN a ELSE b

(***************************************************************************)
(* Specification SpecIds: an export numbers the positions 0, 1, 2, ...     *)
(***************************************************************************)
MaxN == 10000

CodecIdle ==
    /\ data = <<>> /\ stage = "idle" /\ pos = 0 /\ header_size = 0
    /\ thumbnail = None /\ meta = None /\ file = None /\ err = ""
    /\ maxRead = 0 /\ lastPos = 0 /\ src = None /\ writes = 0 /\ origin = <<>>

PtrIdle ==
    /\ doc = Null /\ prev = Null /\ op = "none"
    /\ ptr = <<>> /\ val = Null /\ res = "none" /\ got = None

GraphIdle ==
    /\ project = Null /\ json_inputs = FALSE /\ phase = "idle"
    /\ nodeAt = 0 /\ inputAt = 0 /\ edges = <<>> /\ firstEdges = None

EditIdle ==
    /\ inner = Null /\ innerPrev = Null /\ loaded = None /\ call = None /\ ret = None
    /\ log = <<>> /\ ops = Null /\ changed = 0 /\ bstage = "idle"

DumpIdle == dumpDoc = Null /\ flags = None /\ exports = None

PreviewIdle == previewDoc = Null /\ overflow_checks = FALSE /\ preview = None

InitIds ==
    /\ n = 0 /\ sid = short_id(0) /\ prevSid = <<>>
    /\ PtrIdle /\ CodecIdle /\ GraphIdle /\ EditIdle /\ DumpIdle /\ PreviewIdle

NextId ==
    /\ n < MaxN
    /\ n' = n + 1
    /\ sid' = short_id(n + 1)
    /\ prevSid' = sid
    /\ UNCHANGED <<ptrVars, codecVars, graphVars, editVars, dumpVars, previewVars>>

SpecIds == InitIds /\ [][NextId]_vars

\* the inverse of the bijective base-26 numeration, A=0..Z=25
RECURSIVE DecodeAcc(_, _)
DecodeAcc(s, acc) ==
    IF s = <<>> THEN acc - 1
    ELSE DecodeAcc(Tail(s), acc * Radix + (Head(s) - LetterA) + 1)

Decode(s) == DecodeAcc(s, 0)

\* the string after s in the sequence A..Z, AA..AZ, BA..ZZ, AAA, ...
RECURSIVE SuccCode(_)
SuccCode(s) ==
    IF s = <<>> THEN <<LetterA>>
    ELSE IF s[Len(s)] < LetterA + Radix - 1
         THEN [s EXCEPT ![Len(s)] = @ + 1]
         ELSE SuccCode(SubSeq(s, 1, Len(s) - 1)) \o <<LetterA>>

\* C5: for every n in [0, MaxN], decoding short_id(n) gives n back, short_id(n)
\* is the n-th string of A..Z, AA..AZ, BA.. (the successor of short_id(n-1)),
\* and the codes of the whole range are pairwise distinct (as many codes as
\* indices).
C5_ShortIdBijective ==
    /\ Decode(sid) = n
    /\ \A c \in 1..Len(sid) : sid[c] \in LetterA..(LetterA + Radix - 1)
    /\ sid = SuccCode(prevSid)
    /\ (n = MaxN => Cardinality({short_id(i) : i \in 0..n}) = n + 1)

C5_Witness == n = MaxN /\ Len(sid) = 3 /\ Len(prevSid) = 3

(***************************************************************************)
(* Specification SpecPtr: one patch-layer call (get, set, remove) on a     *)
(* loaded document, and a get that follows a set with the same pointer.    *)
(***************************************************************************)
MaxDepth == 2

KEmpty == <<>>
KSlash == <<Slash>>
KTilde1 == <<Tilde, Digit1>>
KZero == <<Digit0>>

\* pointer segments as written (still escaped)
RawTokens ==
    { Ka, <<Digit0>>, <<Digit1>>, <<51>>, <<Digit0, Digit1>>, <<Plus, Digit1>>,
      <<>>, <<Tilde, Digit1>>, <<Tilde, Digit0, Digit1>> }

RECURSIVE JoinTokens(_)
JoinTokens(ts) == IF ts = <<>> THEN <<>> ELSE <<Slash>> \o Head(ts) \o JoinTokens(Tail(ts))

WellFormedPointers ==
    { JoinTokens(ts) : ts \in UNION { [1..d -> RawTokens] : d \in 0..MaxDepth } }

\* pointers that do not begin with '/'
MalformedPointers == { Ka \o p : p \in WellFormedPointers }

Pointers == WellFormedPointers \cup MalformedPointers

PtrValues == { Num(9), Null, EmptyObj, Arr(<<Num(1)>>) }

PtrDocs ==
    { Obj(Ka :> Arr(<<Num(1), Num(2)>>)),
      EmptyObj,
      Null,
      Num(5),
      Arr(<<>>),
      Arr(<<Num(1), Null>>),
      Arr(<<Arr(<<Num(7)>>), Obj(Ka :> Num(1))>>),
      Arr(<<Null, Arr(<<Num(1), Num(2), Num(3), Num(4)>>)>>),
      Obj((Ka :> Obj((Ka :> Num(1)) @@ (KEmpty :> Num(2)))) @@ (KEmpty :> Num(3))),
      Obj((Ka :> Null) @@ (KSlash :> Arr(<<Null>>))),
      Obj((KTilde1 :> Num(3)) @@ (KZero :> Arr(<<Arr(<<>>), Num(6)>>))),
      Obj(Ka :> Arr(<<Null, Arr(<<Num(5)>>), Obj(Ka :> Arr(<<Num(8)>>))>>)) }

IdsIdle == n = 0 /\ sid = <<>> /\ prevSid = <<>>

InitPtr ==
    /\ doc \in PtrDocs
    /\ prev = doc /\ op = "none" /\ ptr = <<>> /\ val = Null /\ res = "none" /\ got = None
    /\ IdsIdle /\ CodecIdle /\ GraphIdle /\ EditIdle /\ DumpIdle /\ PreviewIdle

OkErr(ok) == IF ok THEN "ok" ELSE "err"

\* cmd_set / Project::set
DoSet ==
    /\ op = "none"
    /\ \E p \in Pointers, x \in PtrValues :
          LET r == set_json_pointer(doc, p, x)
          IN  /\ doc' = r.v /\ res' = OkErr(r.ok)
              /\ prev' = doc /\ op' = "set" /\ ptr' = p /\ val' = x
    /\ UNCHANGED <<got, idsVars, codecVars, graphVars, editVars, dumpVars, previewVars>>

\* cmd_rm / Project::remove
DoRemove ==
    /\ op = "none"
    /\ \E p \in Pointers :
          LET r == remove_json_pointer(doc, p)
          IN  /\ doc' = r.v /\ res' = OkErr(r.ok)
              /\ prev' = doc /\ op' = "remove" /\ ptr' = p
    /\ UNCHANGED <<val, got, idsVars, codecVars, graphVars, editVars, dumpVars, previewVars>>

\* cmd_get / Project::get
DoGet ==
    /\ op = "none"
    /\ \E p \in Pointers :
          LET r == get_pointer(doc, p)
          IN  /\ got' = r /\ res' = OkErr(r.some)
              /\ prev' = doc /\ op' = "get" /\ ptr' = p
    /\ UNCHANGED <<doc, val, idsVars, codecVars, graphVars, editVars, dumpVars, previewVars>>

\* a get with the pointer of the set that has just succeeded
GetAfterSet ==
    /\ op = "set" /\ res = "ok"
    /\ got' = get_pointer(doc, ptr)
    /\ op' = "set_get"
    /\ UNCHANGED <<doc, prev, ptr, val, res, idsVars, codecVars, graphVars, editVars, dumpVars, previewVars>>

\* a second remove with the pointer of the remove that has just succeeded
RemoveAgain ==
    /\ op = "remove" /\ res = "ok"
    /\ LET r == remove_json_pointer(doc, ptr)
       IN  /\ doc' = r.v /\ res' = OkErr(r.ok)
           /\ prev' = doc /\ op' = "remove_remove"
    /\ UNCHANGED <<ptr, val, got, idsVars, codecVars, graphVars, editVars, dumpVars, previewVars>>

NextPtr == DoSet \/ DoRemove \/ DoGet \/ GetAfterSet \/ RemoveAgain

SpecPtr == InitPtr /\ [][NextPtr]_vars

(***************************************************************************)
(* Positions of a document, for stating what an operation changed          *)
(***************************************************************************)
KeyStep(key) == <<"k", key>>
IdxStep(i) == <<"i", i>>

ChildSteps(x) ==
    IF IsObj(x) THEN { KeyStep(key) : key \in DOMAIN x.v }
    ELSE IF IsArr(x) THEN { IdxStep(i) : i \in 0..(Len(x.v) - 1) }
    ELSE {}

Sub(x, step) == IF step[1] = "k" THEN x.v[step[2]] ELSE x.v[step[2] + 1]

RECURSIVE AllPaths(_)
AllPaths(x) ==
    {<<>>} \cup UNION { { <<s>> \o q : q \in AllPaths(Sub(x, s)) } : s \in ChildSteps(x) }

RECURSIVE At(_, _)
At(x, path) == IF path = <<>> THEN x ELSE At(Sub(x, Head(path)), Tail(path))

IsPrefix(a, b) == Len(a) <= Len(b) /\ SubSeq(b, 1, Len(a)) = a

Front(s) == SubSeq(s, 1, Len(s) - 1)
Last(s) == s[Len(s)]

\* the position the tokens address in x: an index step where x holds an array and
\* the token is an index, a key step elsewhere (a missing member counts as null)
RECURSIVE Canon(_, _)
Canon(x, toks) ==
    IF toks = <<>> THEN <<>>
    ELSE LET t == Head(toks)
             idx == ParseUsize(t)
         IN  IF IsArr(x) /\ idx.some
             THEN <<IdxStep(idx.x)>> \o
                  Canon(IF idx.x < Len(x.v) THEN x.v[idx.x + 1] ELSE Null, Tail(toks))
             ELSE <<KeyStep(t)>> \o
                  Canon(IF IsObj(x) /\ HasKey(x, t) THEN x.v[t] ELSE Null, Tail(toks))

\* C6 (as claimed): a get that follows a successful set(doc, p, v) with the same
\* pointer returns v.
C6_SetThenGet == op = "set_get" => got = Some(val)

\* C7 (as claimed): with the empty pointer and with "/", get returns the whole
\* document, set replaces the whole document by the value, and remove treats the
\* two spellings alike (the document becomes null).
C7_WholeDocument ==
    IsRootPointer(ptr) =>
        /\ op = "get" => got = Some(doc)
        /\ op = "set" => (res = "ok" /\ doc = val)
        /\ op = "remove" => (res = "ok" /\ doc = Null)

\* C8: a successful remove with a non-root pointer deletes the addressed object
\* key, or sets the addressed array element to null; every array keeps its length,
\* and every position that is not the addressed one (nor inside it, nor a container
\* of it) holds the value it held before.
C8_RemoveKeepsArrays ==
    (op = "remove" /\ res = "ok" /\ ~IsRootPointer(ptr)) =>
        LET toks == Tokens(ptr)
            addr == Canon(prev, toks)
        IN  IF toks = <<>> THEN doc = prev
            ELSE /\ Front(addr) \in AllPaths(prev)
                 /\ AllPaths(doc) \subseteq AllPaths(prev)
                 /\ \A q \in AllPaths(doc) :
                       /\ At(doc, q).k = At(prev, q).k
                          \/ (q = addr /\ Last(addr)[1] = "i" /\ IsNull(At(doc, q)))
                       /\ IsArr(At(doc, q)) =>
                             (IsArr(At(prev, q)) /\ Len(At(doc, q).v) = Len(At(prev, q).v))
                       /\ (~IsPrefix(q, addr) /\ ~IsPrefix(addr, q)) => At(doc, q) = At(prev, q)
                 /\ \A q \in AllPaths(prev) : IsPrefix(addr, q) \/ q \in AllPaths(doc)
                 /\ IF Last(addr)[1] = "i"
                    THEN addr \in AllPaths(doc) /\ IsNull(At(doc, addr))
                    ELSE addr \notin AllPaths(doc)

\* the spec's example: {"a":[1,2]} with /a/1 gives {"a":[1,null]}; and an object
\* key was deleted in another run
C8_Witness ==
    /\ op = "remove" /\ res = "ok"
    /\ prev = Obj(Ka :> Arr(<<Num(1), Num(2)>>))
    /\ doc = Obj(Ka :> Arr(<<Num(1), Null>>))

\* C9: a successful set whose final segment is an index i at or beyond the length
\* of the addressed array grows that array to length i+1, keeps the old elements,
\* pads with null and stores the value at i; an intermediate array position that
\* holds null, or that lies beyond the array's length, holds after the set an
\* object created empty and then given the next segment as its only key.
C9_SparseArraySet ==
    (op = "set" /\ res = "ok" /\ ~IsRootPointer(ptr) /\ Tokens(ptr) # <<>>) =>
        LET toks == Tokens(ptr)
            addr == Canon(prev, toks)
            par == Front(addr)
            i == ParseUsize(Last(toks))
        IN  /\ (par \in AllPaths(prev) /\ IsArr(At(prev, par)) /\ i.some
                  /\ i.x >= Len(At(prev, par).v)) =>
                    /\ par \in AllPaths(doc) /\ IsArr(At(doc, par))
                    /\ LET A == At(prev, par).v
                           B == At(doc, par).v
                       IN  /\ Len(B) = i.x + 1
                           /\ \A j \in 1..Len(A) : B[j] = A[j]
                           /\ \A j \in (Len(A) + 1)..i.x : B[j] = Null
                           /\ B[i.x + 1] = val
            /\ \A m \in 1..(Len(toks) - 1) :
                  LET p == SubSeq(addr, 1, m - 1)
                      q == SubSeq(addr, 1, m)
                  IN  (p \in AllPaths(prev) /\ IsArr(At(prev, p)) /\ addr[m][1] = "i"
                         /\ (q \notin AllPaths(prev) \/ IsNull(At(prev, q)))) =>
                          /\ q \in AllPaths(doc)
                          /\ IsObj(At(doc, q))
                          /\ DOMAIN At(doc, q).v = {toks[m + 1]}

\* the spec's example, with index 3: {"a":[1,2]} and /a/3 gives {"a":[1,2,null,9]}
C9_Witness ==
    /\ op = "set" /\ res = "ok" /\ val = Num(9)
    /\ prev = Obj(Ka :> Arr(<<Num(1), Num(2)>>))
    /\ doc = Obj(Ka :> Arr(<<Num(1), Num(2), Null, Num(9)>>))

\* C15 (as claimed): set and remove called with a non-empty pointer that does not
\* begin with '/' return an error and leave the document as it was.
C15_MalformedPointer ==
    (op \in {"set", "remove"} /\ ptr \in MalformedPointers) => (res = "err" /\ doc = prev)

(***************************************************************************)
(* Specification SpecCodec: parse_pxc on a file's bytes, write_pxc of a    *)
(* PxcFile (one that was parsed, or one built in memory) and parse_pxc of  *)
(* what was written.                                                       *)
(***************************************************************************)
MaxChunks == 2
MaxWrites == 2

TagXTRA == <<88, 84, 82, 65>>        \* "XTRA", a tag parse_pxc does not know

\* chunk bytes as a file may hold them: well framed, or with a declared length that
\* is not the body's, or cut inside the tag
RawChunk(tag, declared, body) == tag \o U32LE(declared) \o body

ChunkChoices ==
    { RawChunk(TagTHMB, 0, <<>>),
      RawChunk(TagTHMB, 3, <<7, 0, 9>>),
      RawChunk(TagTHMB, 4, <<7, 0, 9>>),
      RawChunk(TagTHMB, U32Big, <<7>>),
      RawChunk(TagMETA, 7, <<1, 0, 0, 0, 97, 98, 0>>),
      RawChunk(TagMETA, 7, <<255, 255, 255, 255, 97, 0, 98>>),
      RawChunk(TagMETA, 4, <<3, 0, 0, 0>>),
      RawChunk(TagMETA, 3, <<1, 0, 0>>),
      RawChunk(TagXTRA, 1, <<5>>),
      RawChunk(<<255, 72, 77, 66>>, 0, <<>>),   \* a tag that is not UTF-8: "????"
      <<84, 72, 77>> }

RECURSIVE Flatten(_)
Flatten(ss) == IF ss = <<>> THEN <<>> ELSE Head(ss) \o Flatten(Tail(ss))

ChunkAreas == { Flatten(cs) : cs \in UNION { [1..c -> ChunkChoices] : c \in 0..MaxChunks } }

Garbage == <<1, 2, 3, 4, 5, 6, 7, 8, 9>>

Payloads ==
    { zlib_compress(to_string(EmptyObj) \o <<0>>),
      to_string(DocV1ab),
      to_string(DocV1) \o <<0>> \o Garbage,
      Garbage }

HeaderSizes(area, payload) ==
    { 7, 8, 7 + Len(area), 8 + Len(area), 9 + Len(area),
      8 + Len(area) + Len(payload), 9 + Len(area) + Len(payload), 100, U32Big }

ContainerFiles ==
    UNION { { Magic \o U32LE(hs) \o area \o payload : hs \in HeaderSizes(area, payload) } :
            <<area, payload>> \in ChunkAreas \X Payloads }

LegacyFiles ==
    { to_string(d) : d \in CodecDocs }
    \cup { to_string_pretty(d) \o <<0>> \o Garbage : d \in CodecDocs }
    \cup { zlib_compress(to_string(d) \o <<0>>) : d \in CodecDocs }
    \cup { <<>>, Garbage, Magic, Magic \o <<8, 0, 0>>, <<123, 0, 0, 0, 0, 0, 0, 0, 0>> }

InputFiles == ContainerFiles \cup LegacyFiles

\* PxcFile values built in memory (the header_size field is not read by write_pxc)
MemoryFiles ==
    { PxcFile(t, m, 0, d) :
        t \in { None, Some(<<>>), Some(<<7, 0, 9>>) },
        m \in { None, Some(MetaOf(3, <<>>)), Some(MetaOf(U32Big, <<97, 98>>)) },
        d \in CodecDocs }

ParseLocalsReset ==
    /\ pos' = 0 /\ header_size' = 0 /\ thumbnail' = None /\ meta' = None

InitCodec ==
    /\ \/ data \in InputFiles /\ stage = "start" /\ file = None
       \/ data = <<>> /\ stage = "have" /\ file \in { Some(f) : f \in MemoryFiles }
    /\ pos = 0 /\ header_size = 0 /\ thumbnail = None /\ meta = None /\ err = ""
    /\ maxRead = 0 /\ lastPos = 0 /\ src = None /\ writes = 0 /\ origin = data
    /\ IdsIdle /\ PtrIdle /\ GraphIdle /\ EditIdle /\ DumpIdle /\ PreviewIdle

\* parse_pxc up to the chunk loop
ParseStart ==
    /\ stage = "start"
    /\ lastPos' = 0
    /\ IF TooSmall(Len(data)) THEN
           /\ stage' = "err" /\ err' = "file too small" /\ file' = None
           /\ maxRead' = 0 /\ ParseLocalsReset
       ELSE IF ~HasMagic(data) THEN
           LET json == parse_payload(data)
           IN  /\ maxRead' = Len(data) /\ ParseLocalsReset
               /\ IF json.some
                  THEN stage' = "ok" /\ err' = "" /\ file' = Some(PxcFile(None, None, 0, json.x))
                  ELSE stage' = "err" /\ err' = "failed to parse JSON payload" /\ file' = None
       ELSE
           LET hs == U32At(data, 5)
               e == HeaderSizeError(hs, Len(data))
           IN  /\ maxRead' = 8 /\ file' = None /\ err' = e
               /\ thumbnail' = None /\ meta' = None /\ header_size' = hs /\ pos' = 8
               /\ stage' = IF e # "" THEN "err" ELSE "walk"
    /\ UNCHANGED <<data, src, writes, origin, idsVars, ptrVars, graphVars, editVars, dumpVars, previewVars>>

\* one iteration of the chunk loop
ChunkStep ==
    /\ stage = "walk" /\ pos < header_size
    /\ LET c == ParseChunk(data, header_size, pos)
       IN  /\ lastPos' = pos
           /\ maxRead' = Max(maxRead, c.reads)
           /\ err' = c.err
           /\ pos' = c.pos
           /\ stage' = IF c.err # "" THEN "err" ELSE "walk"
           /\ thumbnail' = IF c.err = "" /\ MatchTag(c.tag) = "THMB"
                           THEN Some(c.body) ELSE thumbnail
           /\ meta' = IF c.err = "" /\ MatchTag(c.tag) = "META"
                      THEN Some(MetaOf(U32At(c.body, 1), trim_cstr(SliceFrom(c.body, 4))))
                      ELSE meta
    /\ UNCHANGED <<data, header_size, file, src, writes, origin, idsVars, ptrVars, graphVars, editVars, dumpVars, previewVars>>

\* parse_pxc after the chunk loop: the payload
PayloadStep ==
    /\ stage = "walk" /\ pos >= header_size
    /\ lastPos' = 0
    /\ IF header_size > Len(data) THEN
           \* data[header_size..] out of range
           /\ stage' = "panic" /\ err' = "" /\ file' = None /\ maxRead' = maxRead
       ELSE
           LET json == parse_payload(SliceFrom(data, header_size))
           IN  /\ maxRead' = Max(maxRead, Len(data))
               /\ IF json.some
                  THEN /\ stage' = "ok" /\ err' = ""
                       /\ file' = Some(PxcFile(thumbnail, meta, header_size, json.x))
                  ELSE stage' = "err" /\ err' = "failed to parse JSON payload" /\ file' = None
    /\ UNCHANGED <<data, pos, header_size, thumbnail, meta, src, writes, origin, idsVars, ptrVars, graphVars, editVars, dumpVars, previewVars>>

\* write_pxc of the PxcFile held, and the written file read back
Write ==
    /\ stage \in {"have", "ok"} /\ writes < MaxWrites
    /\ \E minify \in BOOLEAN : data' = write_pxc(file.x, minify)
    /\ src' = file /\ file' = None /\ stage' = "start" /\ writes' = writes + 1
    /\ err' = "" /\ maxRead' = 0 /\ lastPos' = 0 /\ ParseLocalsReset
    /\ UNCHANGED <<origin, idsVars, ptrVars, graphVars, editVars, dumpVars, previewVars>>

NextCodec == ParseStart \/ ChunkStep \/ PayloadStep \/ Write

SpecCodec == InitCodec /\ [][NextCodec]_vars

ParseReturned == stage \in {"ok", "err", "panic"}

\* what write_pxc puts in the META chunk: the carried meta, else the derived one
MetaWritten(pxc) == IF pxc.meta.some THEN pxc.meta ELSE derive_meta_from_json(pxc.json)

\* C1 (as claimed): parse_pxc of what write_pxc wrote from a PxcFile succeeds; the
\* document and the thumbnail bytes are those of the PxcFile, the meta is the one
\* write_pxc carried or derived.
C1_RoundTrip ==
    (ParseReturned /\ src.some) =>
        /\ stage = "ok" /\ file.some
        /\ file.x.json = src.x.json
        /\ file.x.thumbnail = src.x.thumbnail
        /\ file.x.meta = MetaWritten(src.x)

HeaderSizeField == U32At(data, 5)

SizeCheckErrors == {"header_size too small", "header_size beyond file length"}

\* C2: on a file that starts with the magic and whose header_size field is below 8
\* or above the file's length, parse_pxc returns the error of the size check and no
\* PxcFile, having touched the first eight bytes only (none beyond the file).
C2_TruncationSafe ==
    (HasMagic(data) /\ Len(data) >= 8 /\ stage # "start"
       /\ (HeaderSizeField < 8 \/ HeaderSizeField > Len(data))) =>
        /\ stage = "err" /\ err \in SizeCheckErrors
        /\ file = None
        /\ maxRead = 8 /\ maxRead <= Len(data)

\* the spec's example: header_size = 100 over a shorter file
C2_Witness ==
    /\ stage = "err" /\ HasMagic(data) /\ Len(data) >= 8
    /\ HeaderSizeField = 100 /\ Len(data) < 100
    /\ err = "header_size beyond file length"

\* after an iteration of the chunk loop: what it found at lastPos
ChunkStepped == lastPos >= 8
RemainingAtLast == header_size - lastPos
DeclaredLenAtLast == U32At(data, lastPos + 5)
TagAtLast == SubSeq(data, lastPos + 1, lastPos + 4)
ChunkAccepted == stage = "walk" /\ pos = lastPos + 8 + DeclaredLenAtLast /\ pos <= header_size
ChunkRejected == stage = "err" /\ file = None /\ ~ENABLED NextCodec

\* C3 (as claimed): an iteration of the chunk loop fails when fewer than 8 bytes
\* remain before header_size or the declared length exceeds what remains after the
\* tag and the length, and in every other case accepts the chunk and goes on.
C3_ChunkFraming ==
    ChunkStepped =>
        IF RemainingAtLast < 8 THEN ChunkRejected
        ELSE IF DeclaredLenAtLast > RemainingAtLast - 8 THEN ChunkRejected
        ELSE ChunkAccepted

\* C3 (amended): as C3, but a well-framed META chunk shorter than 4 bytes (no room
\* for save_version) makes parse fail as well.
C3_ChunkFramingAmended ==
    ChunkStepped =>
        IF RemainingAtLast < 8 THEN ChunkRejected /\ err = "truncated chunk header"
        ELSE IF DeclaredLenAtLast > RemainingAtLast - 8
             THEN ChunkRejected /\ err = "chunk length exceeds header size"
        ELSE IF TagAtLast = TagMETA /\ DeclaredLenAtLast < 4
             THEN ChunkRejected /\ err = "META chunk too small"
        ELSE ChunkAccepted

\* a second chunk declares more than what remains before header_size
C3_Witness ==
    /\ ChunkStepped /\ lastPos > 8
    /\ stage = "err" /\ err = "chunk length exceeds header size"
    /\ DeclaredLenAtLast <= Len(data) - lastPos - 8

\* the outcome of reading the whole input as a legacy payload
LegacyOutcome ==
    LET json == parse_payload(data)
    IN  IF json.some
        THEN stage = "ok" /\ file = Some(PxcFile(None, None, 0, json.x))
        ELSE stage = "err" /\ file = None

\* C4 (as claimed): whatever its length, an input whose first 4 bytes are not the
\* magic is read whole as the payload; the PxcFile has no thumbnail, no meta and
\* the parsed JSON as document.
C4_LegacyPayload ==
    (ParseReturned /\ src = None /\ Len(data) >= 4 /\ ~HasMagic(data)) => LegacyOutcome

\* C4 (amended): an input of at least 8 bytes whose first 4 bytes are not the magic
\* is read whole as the payload (inflated or raw, cut at the first zero byte, parsed
\* as JSON); an input of fewer than 8 bytes is rejected as too small.
C4_LegacyPayloadAmended ==
    (ParseReturned /\ src = None /\ ~HasMagic(data)) =>
        /\ Len(data) >= 8 => LegacyOutcome
        /\ Len(data) < 8 => (stage = "err" /\ err = "file too small" /\ file = None)
        /\ \A d \in CodecDocs :
              ( /\ Len(data) >= 8
                /\ \/ data = to_string(d)
                   \/ data = to_string_pretty(d) \o <<0>> \o Garbage
                   \/ data = zlib_compress(to_string(d) \o <<0>>) ) =>
                  (stage = "ok" /\ file = Some(PxcFile(None, None, 0, d)))

\* a raw JSON text of exactly eight bytes, {"a":10}, was read as the document
C4_Witness ==
    /\ stage = "ok" /\ src = None /\ data = to_string(DocA10) /\ Len(data) = 8
    /\ file = Some(PxcFile(None, None, 0, DocA10))

\* the bytes of a file just written by write_pxc, and the chunks of its header
WrittenState == stage = "start" /\ src.some

RECURSIVE WalkChunks(_, _, _)
WalkChunks(d, hs, p) ==
    IF p >= hs THEN <<>>
    ELSE LET c == ParseChunk(d, hs, p)
         IN  IF c.err # "" THEN <<[tag |-> <<>>, body |-> <<>>]>>
             ELSE <<[tag |-> c.tag, body |-> c.body]>> \o WalkChunks(d, hs, c.pos)

WrittenChunks == WalkChunks(data, U32At(data, 5), 8)
WrittenTags == [c \in 1..Len(WrittenChunks) |-> WrittenChunks[c].tag]
ThumbTags == IF src.x.thumbnail.some THEN <<TagTHMB>> ELSE <<>>

KNodes == <<110, 111, 100, 101, 115>>                                   \* "nodes"
KId == <<105, 100>>                                                     \* "id"
KInputs == <<105, 110, 112, 117, 116, 115>>                             \* "inputs"
KOutputs == <<111, 117, 116, 112, 117, 116, 115>>                       \* "outputs"
KFromNode == <<102, 114, 111, 109, 95, 110, 111, 100, 101>>             \* "from_node"
KFromIndex == <<102, 114, 111, 109, 95, 105, 110, 100, 101, 120>>       \* "from_index"
KFromTag == <<102, 114, 111, 109, 95, 116, 97, 103>>                    \* "from_tag"
Kf == <<102>>                                                           \* "f"
Kfo == <<102, 111>>                                                     \* "fo"
Kt == <<116>>                                                           \* "t"
Kti == <<116, 105>>                                                     \* "ti"
Ktg == <<116, 103>>                                                     \* "tg"
KInput == <<105, 110, 112, 117, 116>>                                   \* "input"

\* .and_then(|v| v.as_str())
AsStr(o) == IF o.some /\ IsStr(o.x) THEN Some(o.x.v) ELSE None

\* .and_then(|v| v.as_array())
AsArray(o) == IF o.some /\ IsArr(o.x) THEN Some(o.x.v) ELSE None

\* .and_then(|v| v.as_i64().or_else(|| v.as_f64().map(|f| f as i64))): the numbers
\* of the model are integers within i64
AsI64(o) == IF o.some /\ IsNum(o.x) THEN Some(o.x.v) ELSE None

\* one edge for each source port: a second edge from a port is dropped
PushEdgeOnce(es, edge) ==
    IF \E m \in 1..Len(es) : es[m].v[Kf] = edge.v[Kf] /\ es[m].v[Kfo] = edge.v[Kfo]
    THEN es ELSE Append(es, edge)

\* edges.push(edge)
PushEdge(es, edge) == Append(es, edge)

\* the body of the loop over a node's inputs, for the slot at index i of node to_id
InputEdges(es, input, to_id, i, with_input) ==
    LET from_node == AsStr(GetKey(input, KFromNode))
        from_index == AsI64(GetKey(input, KFromIndex))
        from_tag == AsI64(GetKey(input, KFromTag))
        edge0 == Obj((Kf :> Str(from_node.x)) @@ (Kfo :> Num(from_index.x))
                     @@ (Kt :> Str(to_id)) @@ (Kti :> Num(i)))
        edge1 == IF from_tag.some THEN MapInsert(edge0, Ktg, Num(from_tag.x)) ELSE edge0
        edge2 == IF with_input THEN MapInsert(edge1, KInput, input) ELSE edge1
    IN  IF from_node.some /\ from_index.some THEN PushEdge(es, edge2) ELSE es

(***************************************************************************)
(* Specification SpecGraph: the edges of a document are derived, then      *)
(* derived once more from the same document.                               *)
(***************************************************************************)
MaxNodes == 2

N1 == <<110, 49>>
N2 == <<110, 50>>
N3 == <<110, 51>>

Link(from, index) == Obj((KFromNode :> Str(from)) @@ (KFromIndex :> Num(index)))

\* the spec's example: n1 with one output, n2 fed by n1:0
NodeN1 == Obj((KId :> Str(N1)) @@ (KOutputs :> Arr(<<EmptyObj>>)))
NodeN2 == Obj((KId :> Str(N2)) @@ (KInputs :> Arr(<<Link(N1, 0)>>)))
\* n1:0 fans out to two slots of n3, one of them tagged, around a free slot
NodeN3 ==
    Obj((KId :> Str(N3))
        @@ (KInputs :> Arr(<<MapInsert(Link(N1, 0), KFromTag, Num(2)), EmptyObj, Link(N1, 0)>>)))
\* slots that carry one of the two fields only, or a field of another type
NodeOdd ==
    Obj((KId :> Str(N2))
        @@ (KInputs :> Arr(<<Obj(KFromNode :> Str(N1)),
                             Obj(KFromIndex :> Num(1)),
                             Obj((KFromNode :> Num(7)) @@ (KFromIndex :> Num(0))),
                             Obj((KFromNode :> Str(N2)) @@ (KFromIndex :> Str(<<48>>))),
                             Null,
                             MapInsert(Link(N2, 1), KFromTag, Str(<<120>>))>>)))

NodeChoices ==
    { NodeN1, NodeN2, NodeN3, NodeOdd,
      Obj(KInputs :> Arr(<<Link(N1, 0)>>)),                        \* no id
      Obj((KId :> Num(5)) @@ (KInputs :> Arr(<<Link(N1, 0)>>))),   \* an id that is no string
      Obj((KId :> Str(N1)) @@ (KInputs :> Obj(Ka :> Link(N1, 0)))),\* inputs that are no array
      Null }

GraphDocs ==
    { Obj(KNodes :> Arr(ns)) : ns \in UNION { [1..c -> NodeChoices] : c \in 0..MaxNodes } }
    \cup { EmptyObj, Obj(KNodes :> Num(1)), Null }

NodesOf(d) == AsArray(GetKey(d, KNodes))

InitGraph ==
    /\ project \in GraphDocs /\ json_inputs \in BOOLEAN
    /\ phase = "start" /\ nodeAt = 0 /\ inputAt = 0 /\ edges = <<>> /\ firstEdges = None
    /\ IdsIdle /\ PtrIdle /\ CodecIdle /\ EditIdle /\ DumpIdle /\ PreviewIdle

\* up to the edge loop: the nodes array is looked up, edges starts empty
GraphStart ==
    /\ phase = "start"
    /\ phase' = IF NodesOf(project).some THEN "nodes" ELSE "err"
    /\ nodeAt' = 0 /\ inputAt' = 0 /\ edges' = <<>>
    /\ UNCHANGED <<project, json_inputs, firstEdges, idsVars, ptrVars, codecVars, editVars, dumpVars, previewVars>>

\* the head of one iteration of `for node in nodes`
NodeStep ==
    /\ phase = "nodes" /\ nodeAt < Len(NodesOf(project).x)
    /\ LET node == NodesOf(project).x[nodeAt + 1]
           to_id == AsStr(GetKey(node, KId))
           inputs == AsArray(GetKey(node, KInputs))
       IN  IF to_id.some /\ inputs.some /\ inputs.x # <<>>
           THEN phase' = "inputs" /\ nodeAt' = nodeAt
           ELSE phase' = "nodes" /\ nodeAt' = nodeAt + 1
    /\ inputAt' = 0
    /\ UNCHANGED <<project, json_inputs, edges, firstEdges, idsVars, ptrVars, codecVars, editVars, dumpVars, previewVars>>

\* one iteration of `for (idx, input) in inputs.iter().enumerate()`
InputStep ==
    /\ phase = "inputs"
    /\ LET node == NodesOf(project).x[nodeAt + 1]
           to_id == AsStr(GetKey(node, KId)).x
           inputs == AsArray(GetKey(node, KInputs)).x
       IN  /\ edges' = InputEdges(edges, inputs[inputAt + 1], to_id, inputAt, json_inputs)
           /\ IF inputAt + 1 < Len(inputs)
              THEN inputAt' = inputAt + 1 /\ phase' = "inputs" /\ nodeAt' = nodeAt
              ELSE inputAt' = 0 /\ phase' = "nodes" /\ nodeAt' = nodeAt + 1
    /\ UNCHANGED <<project, json_inputs, firstEdges, idsVars, ptrVars, codecVars, editVars, dumpVars, previewVars>>

\* the loop over the nodes is over
EdgesDone ==
    /\ phase = "nodes" /\ nodeAt = Len(NodesOf(project).x)
    /\ phase' = "done"
    /\ UNCHANGED <<project, json_inputs, nodeAt, inputAt, edges, firstEdges,
                   idsVars, ptrVars, codecVars, editVars, dumpVars, previewVars>>

\* the same document is handed to the derivation again
Rederive ==
    /\ phase = "done" /\ firstEdges = None
    /\ firstEdges' = Some(edges) /\ phase' = "start"
    /\ nodeAt' = 0 /\ inputAt' = 0 /\ edges' = <<>>
    /\ UNCHANGED <<project, json_inputs, idsVars, ptrVars, codecVars, editVars, dumpVars, previewVars>>

NextGraph == GraphStart \/ NodeStep \/ InputStep \/ EdgesDone \/ Rederive

SpecGraph == InitGraph /\ [][NextGraph]_vars

\* a node with an id; an input slot that carries from_node and from_index
HasId(node) == IsObj(node) /\ HasKey(node, KId) /\ IsStr(node.v[KId])
HasInputs(node) == IsObj(node) /\ HasKey(node, KInputs) /\ IsArr(node.v[KInputs])
Linked(slot) ==
    /\ IsObj(slot)
    /\ HasKey(slot, KFromNode) /\ IsStr(slot.v[KFromNode])
    /\ HasKey(slot, KFromIndex) /\ IsNum(slot.v[KFromIndex])
Tagged(slot) == HasKey(slot, KFromTag) /\ IsNum(slot.v[KFromTag])

\* the pairs <<position of a node with an id, index of a linked slot of it>>
LinkPairs ==
    LET nodes == NodesOf(project).x
    IN  UNION { { <<p, i>> : i \in { j \in 0..(Len(nodes[p].v[KInputs].v) - 1) :
                                       Linked(nodes[p].v[KInputs].v[j + 1]) } } :
                p \in { q \in 1..Len(nodes) : HasId(nodes[q]) /\ HasInputs(nodes[q]) } }

PairBefore(a, b) == a[1] < b[1] \/ (a[1] = b[1] /\ a[2] < b[2])
PairRank(pr) == 1 + Cardinality({ q \in LinkPairs : PairBefore(q, pr) })

\* C10: when a derivation is over, the edge list holds one edge for each pair of a
\* node with a (string) id and an input index i whose slot carries from_node (a
\* string) and from_index (a number), in document order, and nothing else: the
\* edge has from_node, from_index, to_node = the node's id, to_index = i, and the
\* tag exactly when the slot has a numeric from_tag; edges of one source port are
\* all kept, and the second derivation gives the list of the first.
C10_EdgeDerivation ==
    phase = "done" =>
        /\ Len(edges) = Cardinality(LinkPairs)
        /\ \A pr \in LinkPairs :
              LET node == NodesOf(project).x[pr[1]]
                  slot == node.v[KInputs].v[pr[2] + 1]
                  e == edges[PairRank(pr)]
              IN  /\ IsObj(e)
                  /\ e.v[Kf] = slot.v[KFromNode] /\ e.v[Kfo] = slot.v[KFromIndex]
                  /\ e.v[Kt] = node.v[KId] /\ e.v[Kti] = Num(pr[2])
                  /\ HasKey(e, Ktg) <=> Tagged(slot)
                  /\ Tagged(slot) => e.v[Ktg] = slot.v[KFromTag]
                  /\ DOMAIN e.v \subseteq {Kf, Kfo, Kt, Kti, Ktg, KInput}
        /\ firstEdges.some => edges = firstEdges.x

\* the spec's n1 and n2 followed by n3, which n1:0 feeds twice: three edges from the
\* one source port, derived twice
C10_Witness ==
    /\ phase = "done" /\ firstEdges.some
    /\ project = Obj(KNodes :> Arr(<<NodeN1, NodeN2, NodeN3>>)) \/
       project = Obj(KNodes :> Arr(<<NodeN2, NodeN3>>))
    /\ Len(edges) = 3
    /\ \A m \in 1..3 : edges[m].v[Kf] = Str(N1) /\ edges[m].v[Kfo] = Num(0)
    /\ edges[1].v[Kt] = Str(N2) /\ edges[1].v[Kti] = Num(0)
    /\ edges[3].v[Kt] = Str(N3) /\ edges[3].v[Kti] = Num(2)

(***************************************************************************)
(* Node and port operations (src/src/ops.rs, src/src/registry.rs,          *)
(* src/src/python.rs, src/src/cli.rs)                                      *)
(***************************************************************************)
KType == <<116, 121, 112, 101>>                          \* "type"
KR == <<114>>                                            \* "r"
KD == <<100>>                                            \* "d"
KAnim == <<97, 110, 105, 109>>                           \* "anim"
KNode == <<110, 111, 100, 101>>                          \* "node"
KValue == <<118, 97, 108, 117, 101>>                     \* "value"
KInputName == <<105, 110, 112, 117, 116, 95, 110, 97, 109, 101>>   \* "input_name"
KGradient == <<103, 114, 97, 100, 105, 101, 110, 116>>   \* "gradient"

\* RegistryPort, RegistryNode, Registry
RegistryPort(name, ty) == [name |-> name, ty |-> ty]
RegistryNode(inputs, outputs) == [inputs |-> inputs, outputs |-> outputs]
RegGet(reg, node_type) ==
    IF node_type \in DOMAIN reg.nodes THEN Some(reg.nodes[node_type]) ELSE None

\* Result: Ok(x), Err(anyhow!(msg))
Ok(x) == [ok |-> TRUE, v |-> x]
Err(msg) == [ok |-> FALSE, msg |-> msg]

\* str::to_ascii_lowercase, str::contains
ToAsciiLowercase(t) == [c \in 1..Len(t) |-> IF t[c] >= 65 /\ t[c] <= 90 THEN t[c] + 32 ELSE t[c]]
Contains(hay, needle) ==
    \E c \in 1..(Len(hay) - Len(needle) + 1) : SubSeq(hay, c, c + Len(needle) - 1) = needle

\* node.get("type").and_then(|v| v.as_str()).unwrap_or("")
NodeType(node) ==
    LET t == AsStr(GetKey(node, KType)) IN IF t.some THEN t.x ELSE <<>>

\* the first port (0-based) whose name is the one given
PortNamed(ports, name) ==
    LET hits == { c \in 1..Len(ports) : ports[c].name = Some(name) }
    IN  IF hits = {} THEN None
        ELSE Some((CHOOSE c \in hits : \A e \in hits : c <= e) - 1)

resolve_input_slot(node, input_slot, input_name, registry) ==
    IF input_slot.some THEN Ok(input_slot.x)
    ELSE IF ~input_name.some THEN Err("--input or --input-name required")
    ELSE LET reg_node == IF registry.some THEN RegGet(registry.x, NodeType(node)) ELSE None
         IN  IF ~reg_node.some THEN Err("registry missing node type")
             ELSE LET hit == PortNamed(reg_node.x.inputs, input_name.x)
                  IN  IF hit.some THEN Ok(hit.x) ELSE Err("input name not found")

resolve_output_slot(node, output_slot, output_name, registry) ==
    IF output_slot.some THEN Ok(output_slot.x)
    ELSE IF ~output_name.some THEN Err("output slot or name required")
    ELSE LET reg_node == IF registry.some THEN RegGet(registry.x, NodeType(node)) ELSE None
             hit == IF reg_node.some THEN PortNamed(reg_node.x.outputs, output_name.x) ELSE None
         IN  IF hit.some THEN Ok(hit.x) ELSE Err("output name not found")

\* n.get("id").and_then(|v| v.as_str())
IdOf(node) == AsStr(GetKey(node, KId))

\* the ids of the nodes that have one, in the order of the nodes
RECURSIVE IdList(_)
IdList(nodes) ==
    IF nodes = <<>> THEN <<>>
    ELSE (IF IdOf(Head(nodes)).some THEN <<IdOf(Head(nodes)).x>> ELSE <<>>) \o IdList(Tail(nodes))

\* the short code read as a position of the nodes array itself
ResolveByArrayPosition(node_arg, nodes) ==
    IF \E c \in 1..Len(nodes) : IdOf(nodes[c]) = Some(node_arg) THEN Some(node_arg)
    ELSE LET hits == { c \in 1..Len(nodes) : short_id(c - 1) = node_arg /\ IdOf(nodes[c]).some }
         IN  IF hits = {} THEN None
             ELSE Some(IdOf(nodes[CHOOSE c \in hits : \A e \in hits : c <= e]).x)

resolve_node_id(node_arg, nodes) ==
    IF \E c \in 1..Len(nodes) : IdOf(nodes[c]) = Some(node_arg) THEN Some(node_arg)
    ELSE LET id_list == IdList(nodes)
             hits == { c \in 1..Len(id_list) : short_id(c - 1) = node_arg }
         IN  IF hits = {} THEN None
             ELSE Some(id_list[CHOOSE c \in hits : \A e \in hits : c <= e])

\* nodes.iter().find(|n| id of n == node_id): its 1-based position, 0 for None
FindNode(nodes, node_id) ==
    LET hits == { c \in 1..Len(nodes) : IdOf(nodes[c]) = Some(node_id) }
    IN  IF hits = {} THEN 0 ELSE CHOOSE c \in hits : \A e \in hits : c <= e

\* one slot too many is pushed
RECURSIVE GrowInputsPast(_, _)
GrowInputsPast(inputs, slot) ==
    IF Len(inputs) <= slot + 1 THEN GrowInputsPast(Append(inputs, EmptyObj), slot) ELSE inputs

\* while inputs.len() <= slot { inputs.push(Value::Object(Map::new())) }
RECURSIVE GrowInputs(_, _)
GrowInputs(inputs, slot) ==
    IF Len(inputs) <= slot THEN GrowInputs(Append(inputs, EmptyObj), slot) ELSE inputs

\* the document with the inputs of the node at position at replaced
WithInputs(json, at, inputs) ==
    LET nodes == json.v[KNodes].v
    IN  MapInsert(json, KNodes,
                  Arr([nodes EXCEPT ![at] = MapInsert(nodes[at], KInputs, Arr(inputs))]))

\* every value is stored as its JSON text
FinalValueEncoded(value, node_type, slot, registry) ==
    IF IsStr(value) THEN value ELSE Str(to_string(value))

\* every value is stored as it is
FinalValuePlain(value, node_type, slot, registry) == value

\* final_value of set_input_value_in_pxc: the gradient rule
FinalValue(value, node_type, slot, registry) ==
    LET reg_node == IF registry.some THEN RegGet(registry.x, node_type) ELSE None
        port == IF reg_node.some /\ slot < Len(reg_node.x.inputs)
                THEN Some(reg_node.x.inputs[slot + 1]) ELSE None
    IN  IF /\ port.some /\ port.x.ty.some
           /\ Contains(ToAsciiLowercase(port.x.ty.x), KGradient)
           /\ ~IsStr(value)
        THEN Str(to_string(value))
        ELSE value

\* the outcome of an operation on the document: the Result and the document it leaves
Pass(json) == [ok |-> TRUE, msg |-> "", json |-> json]
Fail(msg, json) == [ok |-> FALSE, msg |-> msg, json |-> json]

\* the four markers stay on the slot
ClearMarkersNone(input) == input

\* input.remove("from_node"), ("from_index"), ("from_tag"), ("anim")
ClearMarkers(input) ==
    MapRemove(MapRemove(MapRemove(MapRemove(input, KFromNode), KFromIndex), KFromTag), KAnim)

set_input_value_in_pxc(json, node_arg, input_slot, input_name, value, registry) ==
    LET nodes == AsArray(GetKey(json, KNodes))
    IN  IF ~nodes.some THEN Fail("no nodes array found", json)
        ELSE LET node_id == resolve_node_id(node_arg, nodes.x)
        IN  IF ~node_id.some THEN Fail("node id not found", json)
        ELSE LET at == FindNode(nodes.x, node_id.x)
        IN  IF at = 0 THEN Fail("node not found after resolve", json)
        ELSE LET node == nodes.x[at]
                 slot == resolve_input_slot(node, input_slot, input_name, registry)
        IN  IF ~slot.ok THEN Fail(slot.msg, json)
        ELSE LET inputs == AsArray(GetKey(node, KInputs))
        IN  IF ~inputs.some THEN Fail("node has no inputs array", json)
        ELSE LET grown == GrowInputs(inputs.x, slot.v)
                 input == grown[slot.v + 1]
        IN  IF ~IsObj(input) THEN Fail("input slot is not an object", WithInputs(json, at, grown))
        ELSE LET final_value == FinalValue(value, NodeType(node), slot.v, registry)
                 stored == MapInsert(ClearMarkers(input), KR, Obj(KD :> final_value))
             IN  Pass(WithInputs(json, at, [grown EXCEPT ![slot.v + 1] = stored]))

get_input_value_in_pxc(json, node_arg, input_slot, input_name, registry) ==
    LET nodes == AsArray(GetKey(json, KNodes))
    IN  IF ~nodes.some THEN Err("no nodes array found")
        ELSE LET node_id == resolve_node_id(node_arg, nodes.x)
        IN  IF ~node_id.some THEN Err("node id not found")
        ELSE LET at == FindNode(nodes.x, node_id.x)
        IN  IF at = 0 THEN Err("node not found after resolve")
        ELSE LET node == nodes.x[at]
                 slot == resolve_input_slot(node, input_slot, input_name, registry)
        IN  IF ~slot.ok THEN Err(slot.msg)
        ELSE LET inputs == AsArray(GetKey(node, KInputs))
        IN  IF ~inputs.some THEN Err("node has no inputs array")
        ELSE IF slot.v >= Len(inputs.x) THEN Err("input slot out of range")
        ELSE LET r == GetKey(inputs.x[slot.v + 1], KR)
             IN  IF r.some
                 THEN (IF IsObj(r.x) /\ HasKey(r.x, KD) THEN Ok(r.x.v[KD]) ELSE Ok(r.x))
                 ELSE Ok(Null)

\* the slot is built anew: what it held is dropped
LinkSlotFresh(input, from_id, from_slot) ==
    Obj((KFromNode :> Str(from_id)) @@ (KFromIndex :> Num(from_slot)))

\* input.insert("from_node", ..), input.insert("from_index", ..), input.remove("from_tag")
LinkSlot(input, from_id, from_slot) ==
    MapRemove(MapInsert(MapInsert(input, KFromNode, Str(from_id)), KFromIndex, Num(from_slot)),
              KFromTag)

\* Project::connect (the registry is the embedded one)
connect(json, from_node, to_node, from_output, to_input, to_input_name, from_output_name, registry) ==
    LET nodes == AsArray(GetKey(json, KNodes))
    IN  IF ~nodes.some THEN Fail("nodes array missing", json)
        ELSE LET from_id == resolve_node_id(from_node, nodes.x)
                 to_id == resolve_node_id(to_node, nodes.x)
        IN  IF ~from_id.some THEN Fail("from_node not found", json)
        ELSE IF ~to_id.some THEN Fail("to_node not found", json)
        ELSE LET from_at == FindNode(nodes.x, from_id.x)
                 to_at == FindNode(nodes.x, to_id.x)
        IN  IF from_at = 0 THEN Fail("from_node not found after resolve", json)
        ELSE LET from_slot == resolve_output_slot(nodes.x[from_at], from_output,
                                                  from_output_name, registry)
        IN  IF ~from_slot.ok THEN Fail(from_slot.msg, json)
        ELSE IF to_at = 0 THEN Fail("to_node not found after resolve", json)
        ELSE LET slot == resolve_input_slot(nodes.x[to_at], to_input, to_input_name, registry)
        IN  IF ~slot.ok THEN Fail(slot.msg, json)
        ELSE LET inputs == AsArray(GetKey(nodes.x[to_at], KInputs))
        IN  IF ~inputs.some THEN Fail("to_node inputs missing", json)
        ELSE LET grown == GrowInputs(inputs.x, slot.v)
                 input == grown[slot.v + 1]
        IN  IF ~IsObj(input) THEN Fail("input slot is not an object", WithInputs(json, to_at, grown))
        ELSE Pass(WithInputs(json, to_at,
                             [grown EXCEPT ![slot.v + 1] = LinkSlot(input, from_id.x, from_slot.v)]))

\* cmd_connect, up to write_with_target
cmd_connect(json, from, from_index, to, to_input, tag) ==
    LET nodes == AsArray(GetKey(json, KNodes))
    IN  IF ~nodes.some THEN Fail("no nodes array found", json)
        ELSE LET at == FindNode(nodes.x, to)
        IN  IF at = 0 THEN Fail("target node not found", json)
        ELSE LET inputs == AsArray(GetKey(nodes.x[at], KInputs))
        IN  IF ~inputs.some THEN Fail("node has no inputs", json)
        ELSE IF to_input >= Len(inputs.x) THEN Fail("input index out of range", json)
        ELSE LET old == inputs.x[to_input + 1]
                 map0 == IF IsObj(old) THEN old ELSE EmptyObj
                 map1 == MapInsert(MapInsert(map0, KFromNode, Str(from)), KFromIndex, Num(from_index))
                 map2 == IF tag.some THEN MapInsert(map1, KFromTag, Num(tag.x))
                         ELSE MapRemove(map1, KFromTag)
             IN  Pass(WithInputs(json, at, [inputs.x EXCEPT ![to_input + 1] = map2]))

\* the edge loop of graph_json_from_pxc run to its end, json_inputs off
RECURSIVE InputsLoop(_, _, _, _)
InputsLoop(es, inputs, to_id, i) ==
    IF i >= Len(inputs) THEN es
    ELSE InputsLoop(InputEdges(es, inputs[i + 1], to_id, i, FALSE), inputs, to_id, i + 1)

RECURSIVE NodesLoop(_, _)
NodesLoop(es, nodes) ==
    IF nodes = <<>> THEN es
    ELSE LET to_id == IdOf(Head(nodes))
             inputs == AsArray(GetKey(Head(nodes), KInputs))
         IN  NodesLoop(IF to_id.some /\ inputs.some
                       THEN InputsLoop(es, inputs.x, to_id.x, 0) ELSE es,
                       Tail(nodes))

(***************************************************************************)
(* Specification SpecEdit: a project is loaded and a few calls are made on  *)
(* its document: set_input_value_in_pxc, get_input_value_in_pxc,           *)
(* resolve_node_id, Project::connect, cmd_connect, remove_json_pointer.    *)
(***************************************************************************)
MaxCalls == 2

TG == <<71>>                                  \* a node type the registry knows
TP == <<80>>                                  \* a node type it does not know
RefA == <<65>>                                \* "A": short_id(0), and an id in some documents
RefB == <<66>>                                \* "B": short_id(1)
RefZ == <<122, 122>>                          \* "zz": no id, no short code in range
NAmount == <<97, 109, 111, 117, 110, 116>>    \* "amount"
NNope == <<110, 111, 112, 101>>               \* "nope"
NOut == <<111, 117, 116>>                     \* "out"
KM == <<109>>                                 \* "m"

\* inputs: 0 "color" of type "Gradient", 1 "amount" of type "float", 2 unnamed of type
\* "gradient_map", 3 "x" without a type; outputs: 0 "out"
Reg ==
    [nodes |-> (TG :> RegistryNode(
        << RegistryPort(Some(<<99, 111, 108, 111, 114>>), Some(<<71, 114, 97, 100, 105, 101, 110, 116>>)),
           RegistryPort(Some(NAmount), Some(<<102, 108, 111, 97, 116>>)),
           RegistryPort(None, Some(KGradient \o <<95, 109, 97, 112>>)),
           RegistryPort(Some(<<120>>), None) >>,
        << RegistryPort(Some(NOut), None) >>))]

Stored(x) == Obj(KR :> Obj(KD :> x))

EditNode(id, type, inputs) ==
    Obj((KId :> Str(id)) @@ (KType :> Str(type)) @@ (KInputs :> Arr(inputs))
        @@ (KOutputs :> Arr(<<EmptyObj>>)))

\* n1 (known type): a stored value; a slot fed by n2:0 with tag, anim and a value.
\* n2 (unknown type): a free slot, a raw r, a slot that is no object
EditDoc1 ==
    Obj(KNodes :> Arr(<<
        EditNode(N1, TG, << MapInsert(Stored(Num(1)), KM, Num(1)),
                            MapInsert(MapInsert(MapInsert(Link(N2, 0), KFromTag, Num(1)),
                                                KAnim, Bool(TRUE)), KR, Obj(KD :> Num(2))) >>),
        EditNode(N2, TP, << EmptyObj, Obj(KR :> Num(5)), Null >>) >>))

\* a node without an id first; "A" is an id; n1 has no inputs array
EditDoc2 ==
    Obj((KNodes :> Arr(<<
            Obj((KType :> Str(TG)) @@ (KInputs :> Arr(<<>>))),
            EditNode(RefA, TG, <<>>),
            Obj((KId :> Str(N1)) @@ (KType :> Str(TP))) >>))
        @@ (KVersion :> Num(1)))

\* "A" is the id of the node at position 1 and the short code of position 0; the id n1
\* is carried twice
EditDoc3 ==
    Obj(KNodes :> Arr(<<
        EditNode(N1, TG, << EmptyObj >>),
        EditNode(RefA, TP, << Stored(Num(1)) >>),
        EditNode(N1, TP, << Link(RefA, 0) >>) >>))

EditDocs == { EditDoc1, EditDoc2, EditDoc3, EmptyObj, Obj(KNodes :> Num(1)) }

EditValues == { Arr(<<Num(1)>>), Str(<<115>>) }

SetArg(node, slot, name, value) ==
    [node |-> node, slot |-> slot, name |-> name, value |-> value]

SetArgs ==
    { SetArg(r, sl[1], sl[2], x) :
        r \in {N1, RefB}, sl \in { <<Some(0), None>>, <<Some(3), None>>, <<None, Some(NAmount)>> },
        x \in EditValues }
    \cup { SetArg(RefZ, Some(0), None, Num(9)),
           SetArg(N1, None, None, Num(9)),
           SetArg(N1, None, Some(NNope), Num(9)),
           SetArg(N2, Some(2), None, Num(9)),
           SetArg(N2, Some(1), None, Num(9)),
           SetArg(RefA, Some(2), None, Num(9)) }

GetArgs ==
    { SetArg(r, sl[1], sl[2], Null) :
        r \in {N1, N2}, sl \in { <<Some(0), None>>, <<Some(1), None>>, <<Some(3), None>> } }
    \cup { SetArg(RefZ, Some(0), None, Null), SetArg(RefA, None, Some(NAmount), Null) }

Refs == { N1, N2, RefA, RefB, RefZ }

ConnectArg(from, to, out, outname, slot, name) ==
    [from |-> from, node |-> to, out |-> out, outname |-> outname, slot |-> slot, name |-> name]

ConnectArgs ==
    { ConnectArg(N2, t, Some(0), None, sl[1], sl[2]) :
        t \in {N1, RefA}, sl \in { <<Some(0), None>>, <<Some(1), None>>, <<Some(3), None>>,
                                  <<None, Some(NAmount)>> } }
    \cup { ConnectArg(RefB, N1, Some(1), None, Some(0), None),
           ConnectArg(N1, N1, None, Some(NOut), Some(1), None),
           ConnectArg(N2, N1, None, Some(NOut), Some(0), None),
           ConnectArg(RefZ, N1, Some(0), None, Some(0), None),
           ConnectArg(N1, N2, Some(0), None, Some(2), None) }

CmdConnectArg(from, index, to, slot, tag) ==
    [from |-> from, index |-> index, node |-> to, slot |-> slot, tag |-> tag]

CmdConnectArgs ==
    { CmdConnectArg(N2, 0, N1, 0, None), CmdConnectArg(N2, 1, N1, 1, Some(2)),
      CmdConnectArg(RefZ, 0, N1, 1, None), CmdConnectArg(N2, 0, N1, 3, None),
      CmdConnectArg(N2, 0, RefB, 0, None), CmdConnectArg(N1, 0, N2, 2, None),
      CmdConnectArg(N1, 0, RefA, 0, Some(2)) }

\* /nodes/0/inputs/0/r, /nodes/0/inputs/9/r, /nodes/7, /zz/a
RemovePointers ==
    { JoinTokens(<<KNodes, <<Digit0>>, KInputs, <<Digit0>>, KR>>),
      JoinTokens(<<KNodes, <<Digit0>>, KInputs, <<Digit9>>, KR>>),
      JoinTokens(<<KNodes, <<55>>>>),
      JoinTokens(<<RefZ, Ka>>) }

(* Project::add_node *)
SName == <<110, 97, 109, 101>>                                   \* "name"
SNodePrefix == <<78, 111, 100, 101, 95>>                        \* "Node_"
SNode == <<110, 111, 100, 101>>                               \* "node"
Underscore == 95
Space == 32

StartsWith(s, prefix) == Len(s) >= Len(prefix) /\ SubSeq(s, 1, Len(prefix)) = prefix

\* s.strip_prefix(prefix).unwrap_or(s)
StripPrefix(s, prefix) ==
    IF StartsWith(s, prefix) THEN SubSeq(s, Len(prefix) + 1, Len(s)) ELSE s

\* s.replace(ch, with), with a string of any length
RECURSIVE ReplaceChar(_, _, _)
ReplaceChar(s, ch, with) ==
    IF s = <<>> THEN <<>>
    ELSE (IF Head(s) = ch THEN with ELSE <<Head(s)>>) \o ReplaceChar(Tail(s), ch, with)

display_name_from_type(node_type) ==
    ReplaceChar(StripPrefix(node_type, SNodePrefix), Underscore, <<Space>>)

\* {"type":0,"keys":[{"time":0,"value":4294967295}]}
default_gradient_value ==
    Str(<<123, 34, 116, 121, 112, 101, 34, 58, 48, 44, 34, 107, 101, 121, 115, 34, 58, 91, 123, 34, 116, 105, 109, 101, 34, 58, 48, 44, 34, 118, 97, 108, 117, 101, 34, 58, 52, 50, 57, 52, 57, 54, 55, 50, 57, 53, 125, 93, 125>>)

Zeros(count) == Arr([c \in 1..count |-> Num(0)])

default_value_for_port(port) ==
    LET ty_lower == ToAsciiLowercase(IF port.ty.some THEN port.ty.x ELSE <<>>)
        name_lower == ToAsciiLowercase(IF port.name.some THEN port.name.x ELSE <<>>)
        ty(text) == Contains(ty_lower, text)
        nm(text) == Contains(name_lower, text)
    IN  IF ty(KGradient) THEN default_gradient_value
        ELSE IF ty(<<99, 111, 108, 111, 114>>) \/ nm(<<99, 111, 108, 111, 114>>) \/ nm(<<99, 111, 108, 111, 117, 114>>)
             THEN Num(65535 * 65536 + 65535)      \* 0xFFFF_FFFF
        ELSE IF ty(<<116, 111, 103, 103, 108, 101>>) \/ ty(<<98, 111, 111, 108>>) \/ nm(<<101, 110, 97, 98, 108, 101>>)
             THEN Bool(FALSE)
        ELSE IF ty(<<115, 116, 114, 105, 110, 103>>) \/ ty(<<116, 101, 120, 116>>) \/ ty(<<112, 97, 116, 104>>)
             THEN Str(<<>>)
        ELSE IF ty(<<118, 101, 99, 116, 111, 114, 50>>) \/ ty(<<118, 101, 99, 50>>) THEN Zeros(2)
        ELSE IF ty(<<118, 101, 99, 116, 111, 114, 51>>) \/ ty(<<118, 101, 99, 51>>) THEN Zeros(3)
        ELSE IF ty(<<118, 101, 99, 116, 111, 114, 52>>) \/ ty(<<118, 101, 99, 52>>) THEN Zeros(4)
        ELSE IF ty(<<97, 114, 114, 97, 121>>) THEN Arr(<<>>)
        ELSE IF ty(<<110, 117, 109, 98, 101, 114>>) \/ ty(<<102, 108, 111, 97, 116>>) \/ ty(<<105, 110, 116, 101, 103, 101, 114>>) \/ ty(<<115, 108, 105, 100, 101, 114>>)
             THEN Num(0)
        ELSE Null

\* the node that add_node builds; ts is the clock's milliseconds, c the value taken
\* from NODE_COUNTER
NewNode(node_type, x, y, name, reg_node, ts, c) ==
    LET base_id == ReplaceChar(StripPrefix(node_type, SNodePrefix), Underscore, <<>>)
    IN  Obj((KId :> Str(SNode \o DecDigits(ts) \o <<Underscore>> \o DecDigits(c)))
            @@ (KType :> Str(node_type))
            @@ (SName :> Str(IF name.some THEN name.x ELSE display_name_from_type(node_type)))
            @@ (<<105, 110, 97, 109, 101>> :> Str(base_id \o DecDigits(c)))
            @@ (<<120>> :> Num(IF x.some THEN x.x ELSE 0))
            @@ (<<121>> :> Num(IF y.some THEN y.x ELSE 0))
            @@ (KVersion :> Num(120000))
            @@ (<<114, 101, 110, 97, 109, 101, 100>> :> Bool(name.some))
            @@ (<<100, 97, 116, 97, 95, 108, 101, 110, 103, 116, 104>> :> Num(1))
            @@ (<<105, 110, 112, 117, 116, 95, 102, 105, 120, 95, 108, 101, 110>> :> Num(Len(reg_node.inputs)))
            @@ (KInputs :> Arr([c2 \in 1..Len(reg_node.inputs) |->
                                  Obj((KM :> Num(1))
                                      @@ (KR :> Obj(KD :> default_value_for_port(reg_node.inputs[c2]))))]))
            @@ (KOutputs :> Arr([c2 \in 1..Len(reg_node.outputs) |-> EmptyObj]))
            @@ (<<97, 116, 116, 114, 105>> :> EmptyObj)
            @@ (<<105, 110, 115, 112, 95, 99, 111, 108>> :> EmptyObj)
            @@ (<<105, 110, 115, 112, 101, 99, 116, 73, 110, 112, 117, 116, 115>> :> Arr(<<>>)))

\* nodes.push(the new node): the id, or the error, and the document after
add_node(json, node_type, x, y, name, registry, ts, c) ==
    LET reg_node == RegGet(registry, node_type)
        nodes == AsArray(GetKey(json, KNodes))
    IN  IF ~reg_node.some THEN [ok |-> FALSE, msg |-> "unknown node type", json |-> json]
        ELSE IF ~nodes.some THEN [ok |-> FALSE, msg |-> "nodes array missing", json |-> json]
        ELSE LET node == NewNode(node_type, x, y, name, reg_node.x, ts, c)
             IN  [ok |-> TRUE, msg |-> "", id |-> node.v[KId].v,
                  json |-> MapInsert(json, KNodes, Arr(Append(nodes.x, node)))]

\* id_map of an export with short ids: short_id(i) -> id_list[i]
IdMap(nodes) ==
    LET id_list == IdList(nodes)
    IN  [short \in { short_id(c - 1) : c \in 1..Len(id_list) } |->
           id_list[CHOOSE c \in 1..Len(id_list) : short_id(c - 1) = short]]

AddArg(node_type, name, ts, c) == [node_type |-> node_type, name |-> name, ts |-> ts, c |-> c]

\* a known type (with and without a name, with two counter values), an unknown type
AddArgs ==
    { AddArg(TG, None, 5, 1), AddArg(TG, Some(RefA), 5, 2), AddArg(TP, None, 5, 1) }

InitEdit ==
    /\ inner \in EditDocs /\ innerPrev = inner /\ loaded \in {None, Some(Reg)}
    /\ call = None /\ ret = None /\ log = <<>>
    /\ ops = Null /\ changed = 0 /\ bstage = "idle"
    /\ IdsIdle /\ PtrIdle /\ CodecIdle /\ GraphIdle /\ DumpIdle /\ PreviewIdle

Called(fn, args) == Some([fn |-> fn, args |-> args])

\* what every call of the specification does besides its own effect
CallMade(fn, args) ==
    /\ innerPrev' = inner /\ call' = Called(fn, args) /\ log' = Append(log, fn)
    /\ UNCHANGED <<loaded, ops, changed, bstage, idsVars, ptrVars, codecVars, graphVars, dumpVars, previewVars>>

\* cmd_set_input / Project::set_input
SetInput ==
    /\ Len(log) < MaxCalls
    /\ \E a \in SetArgs :
          LET r == set_input_value_in_pxc(inner, a.node, a.slot, a.name, a.value, loaded)
          IN  /\ inner' = r.json
              /\ ret' = IF r.ok THEN Ok(Null) ELSE Err(r.msg)
              /\ CallMade("set_input", a)

\* get_input_value_in_pxc
GetInput ==
    /\ Len(log) < MaxCalls
    /\ \E a \in GetArgs :
          /\ ret' = get_input_value_in_pxc(inner, a.node, a.slot, a.name, loaded)
          /\ inner' = inner
          /\ CallMade("get_input", a)

\* get_input_value_in_pxc with the node and slot of the set_input that just succeeded
GetAfterSetInput ==
    /\ call.some /\ call.x.fn = "set_input" /\ ret.ok
    /\ ret' = get_input_value_in_pxc(inner, call.x.args.node, call.x.args.slot,
                                     call.x.args.name, loaded)
    /\ inner' = inner
    /\ innerPrev' = innerPrev /\ call' = Called("get_after_set", call.x.args)
    /\ log' = Append(log, "get_after_set")
    /\ UNCHANGED <<loaded, ops, changed, bstage, idsVars, ptrVars, codecVars, graphVars, dumpVars, previewVars>>

\* resolve_node_id over the nodes of the document
Resolve ==
    /\ Len(log) < MaxCalls /\ NodesOf(inner).some
    /\ \E r \in Refs :
          /\ ret' = resolve_node_id(r, NodesOf(inner).x)
          /\ inner' = inner
          /\ CallMade("resolve", r)

\* Project::connect
Connect ==
    /\ Len(log) < MaxCalls
    /\ \E a \in ConnectArgs :
          LET r == connect(inner, a.from, a.node, a.out, a.slot, a.name, a.outname, Some(Reg))
          IN  /\ inner' = r.json
              /\ ret' = IF r.ok THEN Ok(Null) ELSE Err(r.msg)
              /\ CallMade("connect", a)

\* cmd_connect
CmdConnect ==
    /\ Len(log) < MaxCalls
    /\ \E a \in CmdConnectArgs :
          LET r == cmd_connect(inner, a.from, a.index, a.node, a.slot, a.tag)
          IN  /\ inner' = r.json
              /\ ret' = IF r.ok THEN Ok(Null) ELSE Err(r.msg)
              /\ CallMade("cmd_connect", a)

\* cmd_rm / Project::remove on the document
RemoveAtPointer ==
    /\ Len(log) < MaxCalls
    /\ \E p \in RemovePointers :
          LET r == remove_json_pointer(inner, p)
          IN  /\ inner' = r.v
              /\ ret' = IF r.ok THEN Ok(Null) ELSE Err("pointer not found")
              /\ CallMade("remove", p)

\* Project::add_node
AddNode ==
    /\ Len(log) < MaxCalls
    /\ \E a \in AddArgs :
          LET r == add_node(inner, a.node_type, None, None, a.name, Reg, a.ts, a.c)
          IN  /\ inner' = r.json
              /\ ret' = IF r.ok THEN Ok(r.id) ELSE Err(r.msg)
              /\ CallMade("add_node", a)

\* an export builds its id map, and one of its short ids is handed to resolve_node_id
ResolveExported ==
    /\ Len(log) < MaxCalls /\ NodesOf(inner).some
    /\ \E short \in DOMAIN IdMap(NodesOf(inner).x) :
          /\ ret' = resolve_node_id(short, NodesOf(inner).x)
          /\ inner' = inner
          /\ CallMade("resolve_exported", [short |-> short, full |-> IdMap(NodesOf(inner).x)[short]])

NextEdit ==
    SetInput \/ GetInput \/ GetAfterSetInput \/ Resolve \/ Connect \/ CmdConnect
    \/ RemoveAtPointer \/ AddNode \/ ResolveExported

SpecEdit == InitEdit /\ [][NextEdit]_vars

\* the node (1-based position) and the input slot a call addresses in a document
TargetAt(json, ref) ==
    FindNode(NodesOf(json).x, resolve_node_id(ref, NodesOf(json).x).x)
TargetSlot(json, ref, slot, name, registry) ==
    resolve_input_slot(NodesOf(json).x[TargetAt(json, ref)], slot, name, registry).v
InputsAt(json, at) == NodesOf(json).x[at].v[KInputs].v

\* the type the registry declares for a slot of a node, if any
DeclaredType(node, slot, registry) ==
    IF /\ registry.some /\ NodeType(node) \in DOMAIN registry.x.nodes
       /\ slot < Len(registry.x.nodes[NodeType(node)].inputs)
    THEN registry.x.nodes[NodeType(node)].inputs[slot + 1].ty
    ELSE None
IsGradientPort(node, slot, registry) ==
    /\ DeclaredType(node, slot, registry).some
    /\ Contains(ToAsciiLowercase(DeclaredType(node, slot, registry).x), KGradient)

SetDone == call.some /\ call.x.fn = "set_input" /\ ret.ok
SetAt == TargetAt(innerPrev, call.x.args.node)
SetSlot == TargetSlot(innerPrev, call.x.args.node, call.x.args.slot, call.x.args.name, loaded)

C14_MissLeavesDocument ==
    (call.some /\ call.x.fn \in {"set_input", "remove"} /\ ~ret.ok) => inner = innerPrev

\* set_input_value on a slot that is no object (the last slot of n2) failed
C14_Witness ==
    /\ call.some /\ call.x.fn = "set_input" /\ ret = Err("input slot is not an object")
    /\ call.x.args.node = N2 /\ call.x.args.slot = Some(2)
    /\ inner = EditDoc1

ResolveDone == call.some /\ call.x.fn = "resolve"

\* C17 (as claimed): resolve_node returns the reference when it is the id of a node;
\* otherwise the id of the node at position i of the nodes array, short_id(i) being
\* the reference; otherwise nothing.
C17_NodeResolution ==
    ResolveDone =>
        LET nodes == NodesOf(inner).x
            r == call.x.args
            hits == { c \in 1..Len(nodes) : short_id(c - 1) = r }
        IN  IF \E c \in 1..Len(nodes) : HasId(nodes[c]) /\ nodes[c].v[KId] = Str(r)
            THEN ret = Some(r)
            ELSE IF hits = {} THEN ret = None
            ELSE \A c \in hits : HasId(nodes[c]) => ret = Some(nodes[c].v[KId].v)

\* C17 (amended): as C17, but the short code counts positions among the nodes that
\* have a (string) id, in the order of the nodes array, as the export numbers them.
C17_NodeResolutionAmended ==
    ResolveDone =>
        LET nodes == NodesOf(inner).x
            r == call.x.args
            withId == { c \in 1..Len(nodes) : HasId(nodes[c]) }
            hits == { c \in withId :
                        short_id(Cardinality({ e \in withId : e < c })) = r }
        IN  IF \E c \in withId : nodes[c].v[KId] = Str(r)
            THEN ret = Some(r)
            ELSE IF hits = {} THEN ret = None
            ELSE \A c \in hits : ret = Some(nodes[c].v[KId].v)

\* "A" is the id of the node at position 1 and the short code of position 0: the id wins
C17_Witness ==
    /\ ResolveDone /\ inner = EditDoc3 /\ call.x.args = RefA /\ ret = Some(RefA)
    /\ short_id(0) = RefA /\ NodesOf(inner).x[1].v[KId] = Str(N1)

\* the edges into slot (0-based) of one node, as the edge loop derives them
EdgesInto(node, slot) ==
    LET es == NodesLoop(<<>>, <<node>>)
    IN  { m \in 1..Len(es) : es[m].v[Kti] = Num(slot) }

\* a call changed, at most, the inputs of the node at position at, and there the slot
OnlySlotTouched(at, slot) ==
    LET old == NodesOf(innerPrev).x
        new == NodesOf(inner).x
    IN  /\ DOMAIN inner.v = DOMAIN innerPrev.v
        /\ \A key \in DOMAIN inner.v \ {KNodes} : inner.v[key] = innerPrev.v[key]
        /\ Len(new) = Len(old)
        /\ \A c \in 1..Len(old) : c # at => new[c] = old[c]
        /\ DOMAIN new[at].v = DOMAIN old[at].v
        /\ \A key \in DOMAIN old[at].v \ {KInputs} : new[at].v[key] = old[at].v[key]
        /\ Len(InputsAt(inner, at)) = Max(Len(InputsAt(innerPrev, at)), slot + 1)
        /\ \A c \in 1..Len(InputsAt(innerPrev, at)) :
              c # slot + 1 => InputsAt(inner, at)[c] = InputsAt(innerPrev, at)[c]
        /\ \A c \in (Len(InputsAt(innerPrev, at)) + 1)..slot : InputsAt(inner, at)[c] = EmptyObj

\* C18: after a successful set_input_value on (node, slot) the slot has none of
\* from_node, from_index, from_tag, anim, and the edge loop finds no edge into it;
\* inputs has length max(old length, slot + 1), the slots added before the slot
\* are empty objects, and every other slot, the rest of the node, every other node
\* and the rest of the document are as before.
C18_SetInputDisconnects ==
    SetDone =>
        /\ IsObj(InputsAt(inner, SetAt)[SetSlot + 1])
        /\ DOMAIN InputsAt(inner, SetAt)[SetSlot + 1].v
              \cap {KFromNode, KFromIndex, KFromTag, KAnim} = {}
        /\ EdgesInto(NodesOf(inner).x[SetAt], SetSlot) = {}
        /\ OnlySlotTouched(SetAt, SetSlot)

\* a connect into the slot, then set_input_value on it: the edge is gone
C18_Witness ==
    /\ SetDone /\ log = <<"connect", "set_input">>
    /\ SetSlot < Len(InputsAt(innerPrev, SetAt))
    /\ EdgesInto(NodesOf(innerPrev).x[SetAt], SetSlot) # {}
    /\ EdgesInto(NodesOf(inner).x[SetAt], SetSlot) = {}

GetDone == call.some /\ call.x.fn \in {"get_input", "get_after_set"} /\ ret.ok

\* C19: get_input_value returns r.d when the slot has an r with a d, the r itself
\* when it has an r without, null when it has no r; and after a successful
\* set_input_value of v on a port that is no gradient port, get_input_value with the
\* same node reference and slot returns v.
C19_InputRoundTrip ==
    /\ GetDone =>
          LET a == call.x.args
              input == InputsAt(inner, TargetAt(inner, a.node))
                         [TargetSlot(inner, a.node, a.slot, a.name, loaded) + 1]
          IN  ret.v = IF IsObj(input) /\ HasKey(input, KR)
                      THEN (IF IsObj(input.v[KR]) /\ HasKey(input.v[KR], KD)
                            THEN input.v[KR].v[KD] ELSE input.v[KR])
                      ELSE Null
    /\ (call.some /\ call.x.fn = "get_after_set") =>
          LET a == call.x.args
              at == TargetAt(inner, a.node)
              slot == TargetSlot(inner, a.node, a.slot, a.name, loaded)
          IN  ~IsGradientPort(NodesOf(inner).x[at], slot, loaded) => ret = Ok(a.value)

\* [1] set through the short id "B" on slot 3 of a node with three inputs, and read back
C19_Witness ==
    /\ call.some /\ call.x.fn = "get_after_set" /\ ret = Ok(Arr(<<Num(1)>>))
    /\ call.x.args.node = RefB /\ call.x.args.slot = Some(3)
    /\ Len(InputsAt(innerPrev, TargetAt(innerPrev, RefB))) = 3
    /\ Len(InputsAt(inner, TargetAt(inner, RefB))) = 4

ConnectDone == call.some /\ call.x.fn \in {"connect", "cmd_connect"} /\ ret.ok
ConnectAt ==
    IF call.x.fn = "connect" THEN TargetAt(innerPrev, call.x.args.node)
    ELSE FindNode(NodesOf(innerPrev).x, call.x.args.node)
ConnectSlot ==
    IF call.x.fn = "connect"
    THEN TargetSlot(innerPrev, call.x.args.node, call.x.args.slot, call.x.args.name, Some(Reg))
    ELSE call.x.args.slot
LinkKeys == {KFromNode, KFromIndex, KFromTag}

\* C20: a successful connect into a slot leaves everything the slot held besides
\* from_node, from_index and from_tag as it was (so the stored value, and what
\* get_input_value returns, are those from before), touches nothing else, and the
\* edge loop then finds exactly one edge into the slot, also when the slot was
\* connected before.
C20_ValueAndConnection ==
    ConnectDone =>
        LET new == InputsAt(inner, ConnectAt)[ConnectSlot + 1]
            had == ConnectSlot < Len(InputsAt(innerPrev, ConnectAt))
            old == IF had THEN InputsAt(innerPrev, ConnectAt)[ConnectSlot + 1] ELSE EmptyObj
            a == call.x.args
        IN  /\ IsObj(new)
            /\ IsObj(old) => /\ DOMAIN new.v \ LinkKeys = DOMAIN old.v \ LinkKeys
                             /\ \A key \in DOMAIN old.v \ LinkKeys : new.v[key] = old.v[key]
            /\ had => get_input_value_in_pxc(inner, NodesOf(inner).x[ConnectAt].v[KId].v,
                                             Some(ConnectSlot), None, None)
                      = get_input_value_in_pxc(innerPrev, NodesOf(inner).x[ConnectAt].v[KId].v,
                                               Some(ConnectSlot), None, None)
            /\ Cardinality(EdgesInto(NodesOf(inner).x[ConnectAt], ConnectSlot)) = 1
            /\ OnlySlotTouched(ConnectAt, ConnectSlot)

\* set_input_value of [1], then a connect into the same slot: value and edge together
C20_Witness ==
    /\ ConnectDone /\ log = <<"set_input", "connect">>
    /\ ConnectSlot < Len(InputsAt(innerPrev, ConnectAt))
    /\ InputsAt(innerPrev, ConnectAt)[ConnectSlot + 1] = Stored(Arr(<<Num(1)>>))
    /\ InputsAt(inner, ConnectAt)[ConnectSlot + 1].v[KR] = Obj(KD :> Arr(<<Num(1)>>))
    /\ HasKey(InputsAt(inner, ConnectAt)[ConnectSlot + 1], KFromNode)
    /\ Cardinality(EdgesInto(NodesOf(inner).x[ConnectAt], ConnectSlot)) = 1

(***************************************************************************)
(* Project::batch_set_inputs: the loop over the edits of a batch, one      *)
(* edit per step.                                                          *)
(***************************************************************************)

MaxOps == 2

\* v.as_u64()
AsU64(o) == IF o.some /\ IsNum(o.x) /\ o.x.v >= 0 THEN Some(o.x.v) ELSE None

\* the document is rolled back to the one before the batch
RolledBack(before, now) == before

\* `?` on a failed edit returns at once: self.inner stays as the loop left it
AfterFailure(before, now) == now

BatchOp(node, slot, value) ==
    Obj((KNode :> Str(node)) @@ (KInput :> Num(slot)) @@ (KValue :> value))

OpChoices ==
    { BatchOp(N1, 0, Arr(<<Num(1)>>)),
      BatchOp(RefB, 3, Str(<<115>>)),
      Obj((KNode :> Str(N1)) @@ (KInputName :> Str(NAmount)) @@ (KValue :> Num(7))),
      BatchOp(RefZ, 0, Num(1)),
      BatchOp(N2, 2, Num(1)),
      Obj((KNode :> Str(N1)) @@ (KInput :> Num(0))),
      Obj((KInput :> Num(0)) @@ (KValue :> Num(1))),
      Num(1) }

RECURSIVE OpLists(_)
OpLists(len) ==
    IF len = 0 THEN { <<>> }
    ELSE OpLists(len - 1)
           \cup { Append(l, o) : l \in { x \in OpLists(len - 1) : Len(x) = len - 1 }, o \in OpChoices }

BatchInputs == { Arr(l) : l \in OpLists(MaxOps) } \cup { Obj(KNode :> Str(N1)) }

BatchDocs == { EditDoc1, EditDoc3, EmptyObj }

InitBatch ==
    /\ inner \in BatchDocs /\ innerPrev = inner
    /\ loaded = Some(Reg)
    /\ call = None /\ ret = None /\ log = <<>>
    /\ ops = Null /\ changed = 0 /\ bstage = "idle"
    /\ IdsIdle /\ PtrIdle /\ CodecIdle /\ GraphIdle /\ DumpIdle /\ PreviewIdle

\* batch_set_inputs is called: ops_json is parsed and has to be an array
BatchStart ==
    /\ bstage = "idle"
    /\ \E o \in BatchInputs :
          /\ ops' = o
          /\ IF IsArr(o)
             THEN bstage' = "loop" /\ ret' = None
             ELSE bstage' = "done" /\ ret' = Err("ops_json must be a JSON array")
    /\ changed' = 0
    /\ innerPrev' = inner
    /\ log' = Append(log, "batch_set_inputs")
    /\ UNCHANGED <<inner, loaded, call>>
    /\ UNCHANGED <<idsVars, ptrVars, codecVars, graphVars, dumpVars, previewVars>>

\* one turn of `for op in arr`
BatchStep ==
    /\ bstage = "loop" /\ changed < Len(ops.v)
    /\ LET o == ops.v[changed + 1]
           node == AsStr(GetKey(o, KNode))
           value == GetKey(o, KValue)
       IN  IF ~IsObj(o)
           THEN /\ ret' = Err("each op must be an object") /\ bstage' = "done"
                /\ inner' = AfterFailure(innerPrev, inner) /\ UNCHANGED changed
           ELSE IF ~node.some
           THEN /\ ret' = Err("op.node required") /\ bstage' = "done"
                /\ inner' = AfterFailure(innerPrev, inner) /\ UNCHANGED changed
           ELSE IF ~value.some
           THEN /\ ret' = Err("op.value required") /\ bstage' = "done"
                /\ inner' = AfterFailure(innerPrev, inner) /\ UNCHANGED changed
           ELSE LET r == set_input_value_in_pxc(inner, node.x, AsU64(GetKey(o, KInput)),
                                                AsStr(GetKey(o, KInputName)), value.x, loaded)
                IN  IF r.ok
                    THEN /\ inner' = r.json /\ changed' = changed + 1
                         /\ UNCHANGED <<ret, bstage>>
                    ELSE /\ ret' = Err(r.msg) /\ bstage' = "done"
                         /\ inner' = AfterFailure(innerPrev, r.json) /\ UNCHANGED changed
    /\ UNCHANGED <<innerPrev, loaded, call, log, ops>>
    /\ UNCHANGED <<idsVars, ptrVars, codecVars, graphVars, dumpVars, previewVars>>

\* Ok(changed)
BatchEnd ==
    /\ bstage = "loop" /\ changed = Len(ops.v)
    /\ ret' = Ok(changed) /\ bstage' = "done"
    /\ UNCHANGED <<inner, innerPrev, loaded, call, log, ops, changed>>
    /\ UNCHANGED <<idsVars, ptrVars, codecVars, graphVars, dumpVars, previewVars>>

NextBatch == BatchStart \/ BatchStep \/ BatchEnd

SpecBatch == InitBatch /\ [][NextBatch]_vars

\* one edit applied on its own to a document, with the embedded registry
ApplyOp(json, o) ==
    IF ~IsObj(o) \/ ~AsStr(GetKey(o, KNode)).some \/ ~GetKey(o, KValue).some
    THEN Fail("op", json)
    ELSE set_input_value_in_pxc(json, o.v[KNode].v, AsU64(GetKey(o, KInput)),
                                AsStr(GetKey(o, KInputName)), o.v[KValue], Some(Reg))

\* the document after the first k edits of a list, applied one after the other
RECURSIVE ApplyOps(_, _, _)
ApplyOps(json, l, k) ==
    IF k = 0 THEN json ELSE ApplyOp(ApplyOps(json, l, k - 1), l[k]).json

\* the 0-based position of the first edit that fails; Len(l) when none does
FirstFailure(json, l) ==
    LET bad == { k \in 0..(Len(l) - 1) : ~ApplyOp(ApplyOps(json, l, k), l[k + 1]).ok }
    IN  IF bad = {} THEN Len(l) ELSE CHOOSE k \in bad : \A e \in bad : k <= e

BatchFailed == bstage = "done" /\ IsArr(ops) /\ ~ret.ok

\* C12: when edit k of a batch is the first to fail, the document afterwards is the
\* one with the edits 0..k-1 applied in order, and nothing of edit k or later.
C12_BatchNotAtomic ==
    BatchFailed => inner = ApplyOps(innerPrev, ops.v, FirstFailure(innerPrev, ops.v))

\* the second edit failed and the first one is still there
C12_Witness ==
    /\ BatchFailed /\ FirstFailure(innerPrev, ops.v) = 1
    /\ inner # innerPrev
    /\ inner = ApplyOp(innerPrev, ops.v[1]).json

\* what the caller of batch_set_inputs gets as the count
Reported == IF ret.ok THEN Some(ret.v) ELSE None

\* C13: a finished batch reports the number of edits that succeeded before the
\* first failure, and the number of edits when none failed.
C13_BatchReporting ==
    (bstage = "done" /\ IsArr(ops)) => Reported = Some(FirstFailure(innerPrev, ops.v))

(***************************************************************************)
(* More on parse_pxc: the header_size kept, unknown chunks, the chunk walk *)
(***************************************************************************)

\* C24 (as claimed): every PxcFile that parse_pxc returns has
\* 8 <= header_size <= length of the input.
C24_HeaderSizeInvariant ==
    (stage = "ok" /\ file.some) =>
        (8 <= file.x.header_size /\ file.x.header_size <= Len(data))

\* C24 (amended): a PxcFile returned for an input that begins with the magic has
\* 8 <= header_size <= length of the input, and header_size is the field read from
\* bytes 4..7; a PxcFile returned for a legacy input (no magic) has header_size 0.
C24_HeaderSizeInvariantAmended ==
    (stage = "ok" /\ file.some) =>
        IF HasMagic(data)
        THEN /\ 8 <= file.x.header_size /\ file.x.header_size <= Len(data)
             /\ file.x.header_size = HeaderSizeField
        ELSE file.x.header_size = 0

\* a container with a chunk in its header was parsed
C24_Witness ==
    /\ stage = "ok" /\ file.some /\ src = None /\ HasMagic(data)
    /\ file.x.header_size > 8 /\ file.x.header_size < Len(data)

KnownTag(tag) == tag \in {TagTHMB, TagMETA}

\* the header area from p on, without its well-framed chunks of unknown tag (what
\* follows the first chunk that is not well framed is kept as it is)
RECURSIVE KeptArea(_, _, _)
KeptArea(d, hs, p) ==
    IF p + 8 > hs THEN SubSeq(d, p + 1, hs)
    ELSE LET len == U32At(d, p + 5)
         IN  IF len > hs - p - 8 THEN SubSeq(d, p + 1, hs)
             ELSE IF KnownTag(SubSeq(d, p + 1, p + 4))
                  THEN SubSeq(d, p + 1, p + 8 + len) \o KeptArea(d, hs, p + 8 + len)
                  ELSE KeptArea(d, hs, p + 8 + len)

\* the file without its unknown chunks, header_size adjusted
Stripped(d) ==
    LET area == KeptArea(d, U32At(d, 5), 8)
    IN  Magic \o U32LE(8 + Len(area)) \o area \o SliceFrom(d, U32At(d, 5))

WellSized(d) == HasMagic(d) /\ Len(d) >= 8 /\ 8 <= U32At(d, 5) /\ U32At(d, 5) <= Len(d)
HasUnknownChunk(d) == WellSized(d) /\ Stripped(d) # d

\* thumbnail, meta and document of a file whose header holds known chunks only
FieldsOf(d) ==
    LET cs == WalkChunks(d, U32At(d, 5), 8)
        thumbs == { c \in 1..Len(cs) : cs[c].tag = TagTHMB }
        metas == { c \in 1..Len(cs) : cs[c].tag = TagMETA }
        lastOf(S) == CHOOSE c \in S : \A e \in S : e <= c
        json == parse_payload(SliceFrom(d, U32At(d, 5)))
    IN  [ ok |-> json.some /\ \A c \in 1..Len(cs) : cs[c].tag # <<>>,
          thumbnail |-> IF thumbs = {} THEN None ELSE Some(cs[lastOf(thumbs)].body),
          meta |-> IF metas = {} THEN None
                   ELSE Some(MetaOf(U32At(cs[lastOf(metas)].body, 1),
                                    trim_cstr(SliceFrom(cs[lastOf(metas)].body, 4)))),
          json |-> json ]

\* C25: parse_pxc of a file with well-framed chunks of unknown tags in its header
\* gives what it gives for the file without them (the same thumbnail, meta and
\* document, or an error as well), and the header that write_pxc writes holds no
\* chunk with a tag other than THMB and META.
C25_UnknownChunksDropped ==
    /\ (ParseReturned /\ src = None /\ HasUnknownChunk(data)) =>
          LET f == FieldsOf(Stripped(data))
          IN  IF f.ok
              THEN /\ stage = "ok" /\ file.some
                   /\ file.x.thumbnail = f.thumbnail
                   /\ file.x.meta = f.meta
                   /\ file.x.json = f.json.x
              ELSE stage = "err" /\ file = None
    /\ WrittenState => \A c \in 1..Len(WrittenTags) : KnownTag(WrittenTags[c])

\* a file with an unknown chunk and a thumbnail was parsed and written: the
\* thumbnail chunk is there, the unknown one is not
C25_Witness ==
    /\ WrittenState /\ writes = 1 /\ HasUnknownChunk(origin)
    /\ src.x.thumbnail = Some(<<7, 0, 9>>)
    /\ TagTHMB \in { WrittenTags[c] : c \in 1..Len(WrittenTags) }
    /\ TagXTRA \notin { WrittenTags[c] : c \in 1..Len(WrittenTags) }

\* `while pos < header_size` runs its body as long as the condition holds
SpecCodecLive == SpecCodec /\ WF_vars(ChunkStep)

WalkInBounds ==
    /\ stage = "walk" => (8 <= pos /\ pos <= header_size /\ header_size <= Len(data))
    /\ (stage \in {"walk", "err"} /\ ChunkStepped) =>
          (8 <= lastPos /\ lastPos <= pos /\ maxRead <= header_size)

WalkAdvances ==
    (stage = "walk" /\ stage' = "walk") => (pos' >= pos + 8 /\ pos' <= header_size)

\* C27: on a file with the magic and 8 <= header_size <= length, the chunk loop
\* keeps 8 <= pos <= header_size <= length (so no u32 sum overflows), touches no
\* byte at or beyond header_size, moves pos by at least 8 with every chunk it
\* accepts, and ends: it fails, or pos reaches header_size.
C27_ChunkWalkTerminates ==
    /\ []WalkInBounds
    /\ [][WalkAdvances]_vars
    /\ (stage = "walk" ~> (stage # "walk" \/ pos >= header_size))

\* two chunks were accepted and pos stands at header_size
C27_Witness ==
    /\ stage = "walk" /\ HasMagic(data) /\ lastPos > 8 /\ pos = header_size
    /\ maxRead = header_size /\ header_size < Len(data)

(***************************************************************************)
(* More on the patch layer: a failing set, a remove made twice             *)
(***************************************************************************)

\* C28: whenever set returns an error, the document is the one before the call: no
\* object was created on the way, no array was grown, no null was replaced.
C28_SetAllOrNothing ==
    (op = "set" /\ res = "err") => doc = prev

\* /a/a on {"a":null,"/":[null]}: the second segment meets the null held under "a"
C28_Witness ==
    /\ op = "set" /\ res = "err" /\ doc = prev
    /\ ptr = <<Slash>> \o Ka \o <<Slash>> \o Ka
    /\ prev = Obj((Ka :> Null) @@ (KSlash :> Arr(<<Null>>)))

\* C29: a remove that follows a successful remove with the same pointer succeeds
\* and changes nothing; a remove whose last segment is a key missing from the
\* addressed object succeeds and changes nothing, and one whose last segment is an
\* index at or beyond the length of the addressed array fails.
C29_RemoveIdempotent ==
    /\ op = "remove_remove" => (res = "ok" /\ doc = prev)
    /\ (op = "remove" /\ ~IsRootPointer(ptr) /\ Tokens(ptr) # <<>>) =>
          LET toks == Tokens(ptr)
              addr == Canon(prev, toks)
              par == Front(addr)
              i == ParseUsize(Last(toks))
          IN  par \in AllPaths(prev) =>
                 /\ (IsObj(At(prev, par)) /\ ~HasKey(At(prev, par), Last(toks))) =>
                       (res = "ok" /\ doc = prev)
                 /\ (IsArr(At(prev, par)) /\ i.some /\ i.x >= Len(At(prev, par).v)) =>
                       (res = "err" /\ doc = prev)

\* /a/1 removed twice from {"a":[1,2]}: the array keeps its two elements
C29_Witness ==
    /\ op = "remove_remove" /\ res = "ok"
    /\ ptr = <<Slash>> \o Ka \o <<Slash, Digit1>>
    /\ prev = Obj(Ka :> Arr(<<Num(1), Null>>)) /\ doc = prev

(***************************************************************************)
(* Short ids of an export, handed back to the resolver                     *)
(***************************************************************************)

\* C30: in every document reached by add_node, connect, set_input and remove calls,
\* a short id of the export's id map that is no node's id resolves to the id the
\* map gives for it; and after add_node every short id of the map from before
\* stands for the same id, the new node getting the next one.
C30_ShortIdsResolveBack ==
    /\ (call.some /\ call.x.fn = "resolve_exported") =>
          ((\A c \in 1..Len(NodesOf(inner).x) :
                IdOf(NodesOf(inner).x[c]) # Some(call.x.args.short))
             => ret = Some(call.x.args.full))
    /\ (call.some /\ call.x.fn = "add_node" /\ ret.ok) =>
          LET before == IdMap(NodesOf(innerPrev).x)
              after == IdMap(NodesOf(inner).x)
          IN  /\ \A short \in DOMAIN before :
                    short \in DOMAIN after /\ after[short] = before[short]
              /\ DOMAIN after = DOMAIN before \cup {short_id(Cardinality(DOMAIN before))}
              /\ after[short_id(Cardinality(DOMAIN before))] = ret.v

\* a node was added behind a node without an id and two with one; its short id "C"
\* is then resolved
C30_Witness ==
    /\ call.some /\ call.x.fn = "resolve_exported" /\ log = <<"add_node", "resolve_exported">>
    /\ call.x.args.short = <<67>>
    /\ Len(NodesOf(inner).x) = 4
    /\ ret = Some(call.x.args.full)
    /\ StartsWith(call.x.args.full, SNode)

(***************************************************************************)
(* The preview field (src/src/pxc.rs, decode_preview)                      *)
(***************************************************************************)
KPreview == <<112, 114, 101, 118, 105, 101, 119>>          \* "preview"
KWidth == <<119, 105, 100, 116, 104>>                     \* "width"
KHeight == <<104, 101, 105, 103, 104, 116>>               \* "height"
KFormat == <<102, 111, 114, 109, 97, 116>>               \* "format"
KBuffer == <<98, 117, 102, 102, 101, 114>>                \* "buffer"
Rgba8 == 6

\* the base64 alphabet of general_purpose::STANDARD: the character of a 6-bit value,
\* and the value of a character (-1 for a character outside the alphabet)
B64Char(v) ==
    IF v < 26 THEN 65 + v ELSE IF v < 52 THEN 97 + (v - 26)
    ELSE IF v < 62 THEN 48 + (v - 52) ELSE IF v = 62 THEN 43 ELSE 47

B64Val(ch) ==
    IF ch >= 65 /\ ch <= 90 THEN ch - 65
    ELSE IF ch >= 97 /\ ch <= 122 THEN ch - 97 + 26
    ELSE IF ch >= 48 /\ ch <= 57 THEN ch - 48 + 52
    ELSE IF ch = 43 THEN 62 ELSE IF ch = 47 THEN 63 ELSE -1

\* general_purpose::STANDARD.encode: three bytes to four characters, padded with '='
RECURSIVE Base64Encode(_)
Base64Encode(b) ==
    IF b = <<>> THEN <<>>
    ELSE IF Len(b) = 1
         THEN <<B64Char(b[1] \div 4), B64Char((b[1] % 4) * 16), 61, 61>>
    ELSE IF Len(b) = 2
         THEN <<B64Char(b[1] \div 4), B64Char((b[1] % 4) * 16 + b[2] \div 16),
                B64Char((b[2] % 16) * 4), 61>>
    ELSE <<B64Char(b[1] \div 4), B64Char((b[1] % 4) * 16 + b[2] \div 16),
           B64Char((b[2] % 16) * 4 + b[3] \div 64), B64Char(b[3] % 64)>>
         \o Base64Encode(SubSeq(b, 4, Len(b)))

\* general_purpose::STANDARD.decode: None for a length that is no multiple of four, a
\* character outside the alphabet, padding elsewhere than at the end, or set bits
\* behind the last byte
RECURSIVE Base64Decode(_)
Base64Decode(t) ==
    IF t = <<>> THEN Some(<<>>)
    ELSE IF Len(t) < 4 THEN None
    ELSE LET last == Len(t) = 4
             v1 == B64Val(t[1])
             v2 == B64Val(t[2])
             v3 == B64Val(t[3])
             v4 == B64Val(t[4])
             b1 == v1 * 4 + v2 \div 16
             b2 == (v2 % 16) * 16 + v3 \div 4
             b3 == (v3 % 4) * 64 + v4
             rest == Base64Decode(SubSeq(t, 5, Len(t)))
         IN  IF v1 < 0 \/ v2 < 0 THEN None
             ELSE IF t[3] = 61
                  THEN IF last /\ t[4] = 61 /\ v2 % 16 = 0 THEN Some(<<b1>>) ELSE None
             ELSE IF v3 < 0 THEN None
             ELSE IF t[4] = 61
                  THEN IF last /\ v3 % 4 = 0 THEN Some(<<b1, b2>>) ELSE None
             ELSE IF v4 < 0 THEN None
             ELSE IF rest.some THEN Some(<<b1, b2, b3>> \o rest.x) ELSE None

(* Unsigned integers wider than the checker's own are sequences of base-256 *)
(* digits, lowest first: a u32 has four of them.                            *)
RECURSIVE Limbs(_, _)
Limbs(v, count) == IF count = 0 THEN <<>> ELSE <<v % 256>> \o Limbs(v \div 256, count - 1)

IsZero(a) == \A c \in 1..Len(a) : a[c] = 0

\* the digit products that meet in digit k of a * b
RECURSIVE ConvAcc(_, _, _, _)
ConvAcc(a, b, k, c) ==
    IF c > k THEN 0
    ELSE (IF c <= Len(a) /\ k - c + 1 <= Len(b) THEN a[c] * b[k - c + 1] ELSE 0)
         + ConvAcc(a, b, k, c + 1)

\* digits k..count of a * b, with the carry into digit k
RECURSIVE MulFrom(_, _, _, _, _)
MulFrom(a, b, k, carry, count) ==
    IF k > count THEN <<>>
    ELSE LET t == ConvAcc(a, b, k, 1) + carry
         IN  <<t % 256>> \o MulFrom(a, b, k + 1, t \div 256, count)

\* a * b in full: Len(a) + Len(b) digits
MulExact(a, b) == MulFrom(a, b, 1, 0, Len(a) + Len(b))

\* u32 * u32 that fails on overflow (a build with overflow checks: a panic)
MulU32Checked(a, b) ==
    LET full == MulExact(a, b)
    IN  IF IsZero(SubSeq(full, 5, Len(full))) THEN Some(SubSeq(full, 1, 4)) ELSE None

\* u32 * u32 of a build without overflow checks: the low 32 bits
MulU32(a, b) == Some(SubSeq(MulExact(a, b), 1, 4))

\* `as u32` of a u64 that is within the integers of the model
AsU32(v) == Limbs(v, 4)

\* .and_then(|v| v.as_u64().or_else(|| v.as_f64().map(|f| f as u64))): a negative
\* number is no u64, and as a float it is cast to 0
AsU64OrCast(o) == IF o.some /\ IsNum(o.x) THEN Some(IF o.x.v < 0 THEN 0 ELSE o.x.v) ELSE None

PreviewData(width, height, raw, format) ==
    [width |-> width, height |-> height, raw |-> raw, format |-> format]

Panicked == [ok |-> FALSE, msg |-> "attempt to multiply with overflow", panic |-> TRUE]

\* the preview objects that are also handed over as a string
PreviewObj(width, height, format, buffer) ==
    LET w == IF width.some THEN (KWidth :> Num(width.x)) ELSE <<>>
        h == IF height.some THEN (KHeight :> Num(height.x)) ELSE <<>>
        f == IF format.some THEN (KFormat :> Num(format.x)) ELSE <<>>
        b == IF buffer.some THEN (KBuffer :> Str(buffer.x)) ELSE <<>>
    IN  Obj(w @@ h @@ f @@ b)

\* raw RGBA bytes of a given length, packed as the editor packs them
RawBytes(len) == [c \in 1..len |-> c % 256]
Packed(raw) == Base64Encode(zlib_compress(raw))

PreviewTexts ==
    { PreviewObj(Some(1), Some(1), Some(Rgba8), Some(Packed(RawBytes(4)))),
      PreviewObj(Some(1), Some(1), None, Some(Packed(RawBytes(8)))),
      PreviewObj(Some(1073741825), Some(1), Some(Rgba8), Some(Packed(RawBytes(4)))),
      Arr(<<>>) }

\* serde_json::from_str, on the texts serde_json writes for these values: Some(value),
\* and None for any other text
preview_from_str(text) ==
    IF \E d \in PreviewTexts : text = to_string(d)
    THEN Some(CHOOSE d \in PreviewTexts : text = to_string(d))
    ELSE None

\* decode_preview; checked says whether the build panics on integer overflow
decode_preview(json, checked) ==
    LET preview_val == GetKey(json, KPreview)
        parsed == preview_from_str(preview_val.x.v)
        preview_obj == IF IsStr(preview_val.x) THEN parsed.x ELSE preview_val.x
        width == AsU32(LET w == AsU64OrCast(GetKey(preview_obj, KWidth))
                       IN  IF w.some THEN w.x ELSE 0)
        height == AsU32(LET h == AsU64OrCast(GetKey(preview_obj, KHeight))
                        IN  IF h.some THEN h.x ELSE 0)
        format == LET f == AsI64(GetKey(preview_obj, KFormat)) IN IF f.some THEN f.x ELSE Rgba8
        buffer == AsStr(GetKey(preview_obj, KBuffer))
        compressed == Base64Decode(buffer.x)
        raw == zlib_decompress(compressed.x)
        mul(a, b) == IF checked THEN MulU32Checked(a, b) ELSE MulU32(a, b)
        area == mul(width, height)
        size == mul(area.x, Limbs(4, 4))
    IN  IF ~preview_val.some THEN Err("no preview field")
        ELSE IF ~(IsObj(preview_val.x) \/ (IsStr(preview_val.x) /\ preview_val.x.v # <<>>))
             THEN Err("preview is empty")
        ELSE IF IsStr(preview_val.x) /\ ~parsed.some THEN Err("serde_json")
        ELSE IF ~IsObj(preview_obj) THEN Err("preview is not an object")
        ELSE IF ~buffer.some THEN Err("preview buffer missing")
        ELSE IF IsZero(width) \/ IsZero(height) THEN Err("preview has invalid dimensions")
        ELSE IF format # Rgba8 THEN Err("preview format not supported (expected 6 == rgba8)")
        ELSE IF ~compressed.some THEN Err("base64 decode failed")
        ELSE IF ~raw.some THEN Err("zlib")
        ELSE IF ~area.some THEN Panicked
        ELSE IF ~size.some THEN Panicked
        ELSE IF Limbs(Len(raw.x), 8) # size.x \o Limbs(0, 4)
             THEN Err("preview buffer size mismatch")
        ELSE Ok(PreviewData(width, height, raw.x, format))

(***************************************************************************)
(* Specification SpecPreview: decode_preview is run on a document, by a    *)
(* build with or without overflow checks.                                  *)
(***************************************************************************)
MaxRaw == 16

PreviewWidths == { 0, 1, 2, 65536, 1073741825 }      \* 2^16, 2^30 + 1
PreviewHeights == { 0, 1, 2, 32768 }                 \* 2^15
PreviewFormats == { None, Some(Rgba8), Some(5) }
PreviewBuffers ==
    { Some(Packed(RawBytes(len))) : len \in { 0, 4, 8, MaxRaw } }
    \cup { None, Some(<<65, 65, 65>>), Some(Base64Encode(<<1, 2, 3>>)) }

PreviewDocs ==
    { Obj(KPreview :> PreviewObj(Some(w), Some(h), f, b)) :
        w \in PreviewWidths, h \in PreviewHeights, f \in PreviewFormats, b \in PreviewBuffers }
    \cup { Obj(KPreview :> Str(to_string(d))) : d \in PreviewTexts }
    \cup { Obj(KPreview :> PreviewObj(None, Some(1), None, Some(Packed(RawBytes(4))))),
           Obj(KPreview :> PreviewObj(Some(-1), Some(1), None, Some(Packed(RawBytes(4))))),
           Obj(KPreview :> Str(<<>>)), Obj(KPreview :> Str(<<120>>)),
           Obj(KPreview :> Null), EmptyObj }

InitPreview ==
    /\ previewDoc \in PreviewDocs /\ overflow_checks \in BOOLEAN /\ preview = None
    /\ IdsIdle /\ PtrIdle /\ CodecIdle /\ GraphIdle /\ EditIdle /\ DumpIdle

DecodePreview ==
    /\ preview = None
    /\ preview' = Some(decode_preview(previewDoc, overflow_checks))
    /\ UNCHANGED <<previewDoc, overflow_checks, idsVars, ptrVars, codecVars, graphVars,
                   editVars, dumpVars>>

NextPreview == DecodePreview

SpecPreview == InitPreview /\ [][NextPreview]_vars

\* the preview object decode_preview works on, when there is one
PreviewObjOf(json) ==
    LET preview_val == GetKey(json, KPreview)
    IN  IF ~preview_val.some THEN None
        ELSE IF IsObj(preview_val.x) THEN preview_val
        ELSE IF IsStr(preview_val.x) THEN preview_from_str(preview_val.x.v)
        ELSE None

\* width, height in 1..2^32-1, the RGBA8 format, and a buffer that unpacks
SizeCheckReached ==
    /\ preview.some
    /\ LET o == PreviewObjOf(previewDoc)
       IN  /\ o.some /\ IsObj(o.x)
           /\ \A key \in {KWidth, KHeight} : HasKey(o.x, key) /\ IsNum(o.x.v[key]) /\ o.x.v[key].v >= 1
           /\ HasKey(o.x, KFormat) => o.x.v[KFormat] = Num(Rgba8)
           /\ HasKey(o.x, KBuffer) /\ IsStr(o.x.v[KBuffer])
           /\ Base64Decode(o.x.v[KBuffer].v).some
           /\ zlib_decompress(Base64Decode(o.x.v[KBuffer].v).x).some

RawLen == Len(zlib_decompress(Base64Decode(PreviewObjOf(previewDoc).x.v[KBuffer].v).x).x)

\* width * height * 4 in full, as 12 digits
ExactSize ==
    LET o == PreviewObjOf(previewDoc).x
    IN  MulExact(MulExact(Limbs(o.v[KWidth].v, 4), Limbs(o.v[KHeight].v, 4)), Limbs(4, 4))

\* C26: for a preview with the RGBA8 format, width and height of 1 or more and a
\* buffer that unpacks, decode_preview returns the preview exactly when the length
\* of the unpacked bytes is the product width * height * 4 (taken in full, also
\* beyond 32 bits), and an error otherwise.
C26_PreviewSizeCheck ==
    SizeCheckReached =>
        /\ preview.x.ok <=> (Limbs(RawLen, 12) = ExactSize)
        /\ ~preview.x.ok => preview.x.msg = "preview buffer size mismatch"

\* what does hold: without overflow the check is the exact one, and a build with
\* overflow checks never returns a preview of another size
PreviewSizeWithinU32 ==
    SizeCheckReached =>
        /\ IsZero(SubSeq(ExactSize, 5, 12)) => (preview.x.ok <=> (Limbs(RawLen, 12) = ExactSize))
        /\ (overflow_checks /\ preview.x.ok) => Limbs(RawLen, 12) = ExactSize

\* a preview of 2^30 + 1 by 1 pixels with 4 bytes of data is returned
PreviewWrapAccepted ==
    /\ SizeCheckReached /\ preview.x.ok /\ ~overflow_checks
    /\ preview.x.v.width = Limbs(1073741825, 4) /\ Len(preview.x.v.raw) = 4

(***************************************************************************)
(* The JSON export of the graph (src/src/graph.rs, graph_json_from_pxc)    *)
(***************************************************************************)
Kn == <<110>>                                 \* "n"
Kp == <<112>>                                 \* "p"
Ki == <<105>>                                 \* "i"
Ko == <<111>>                                 \* "o"
Ks == <<115>>                                 \* "s"
Kv == <<118>>                                 \* "v"
Kc == <<99>>                                  \* "c"
Kl == <<108>>                                 \* "l"
Ke == <<101>>                                 \* "e"
Kk == <<107>>                                 \* "k"
Kan == <<97, 110>>                            \* "an"
Kad == <<97, 100>>                            \* "ad"
Kraw == <<114, 97, 119>>                      \* "raw"
KX == <<120>>                                 \* "x"
KY == <<121>>                                 \* "y"
KAttri == <<97, 116, 116, 114, 105>>             \* "attri"
Placeholder == -4

IsBool(x) == x.k = "bool"

\* the legend of the export
Legend ==
    Obj((<<110>> :> Str(<<110, 111, 100, 101, 115>>))
        @@ (<<101>> :> Str(<<101, 100, 103, 101, 115>>))
        @@ (<<109>> :> Str(<<105, 100, 95, 109, 97, 112>>))
        @@ (<<108>> :> Str(<<108, 101, 103, 101, 110, 100>>))
        @@ (<<110, 111, 100, 101, 46, 110>> :> Str(<<110, 97, 109, 101>>))
        @@ (<<110, 111, 100, 101, 46, 116>> :> Str(<<116, 121, 112, 101>>))
        @@ (<<110, 111, 100, 101, 46, 105>> :> Str(<<105, 110, 112, 117, 116, 115>>))
        @@ (<<110, 111, 100, 101, 46, 111>> :> Str(<<111, 117, 116, 112, 117, 116, 115>>))
        @@ (<<110, 111, 100, 101, 46, 112>> :> Str(<<112, 111, 115>>))
        @@ (<<110, 111, 100, 101, 46, 105, 100>> :> Str(<<102, 117, 108, 108, 32, 105, 100>>))
        @@ (<<105, 111, 46, 115>> :> Str(<<115, 108, 111, 116>>))
        @@ (<<105, 111, 46, 110>> :> Str(<<110, 97, 109, 101>>))
        @@ (<<105, 111, 46, 116>> :> Str(<<116, 121, 112, 101>>))
        @@ (<<105, 111, 46, 118>> :> Str(<<118, 97, 108, 117, 101>>))
        @@ (<<105, 111, 46, 97>> :> Str(<<97, 116, 116, 114, 105>>))
        @@ (<<105, 111, 46, 99>> :> Str(<<99, 111, 110, 110, 101, 99, 116, 105, 111, 110>>))
        @@ (<<99, 111, 110, 110, 46, 102>> :> Str(<<102, 114, 111, 109, 32, 110, 111, 100, 101>>))
        @@ (<<99, 111, 110, 110, 46, 102, 111>> :> Str(<<102, 114, 111, 109, 32, 111, 117, 116, 112, 117, 116>>))
        @@ (<<99, 111, 110, 110, 46, 116, 103>> :> Str(<<116, 97, 103>>))
        @@ (<<97, 110, 105, 109, 46, 97, 110>> :> Str(<<97, 110, 105, 109, 97, 116, 101, 100>>))
        @@ (<<97, 110, 105, 109, 46, 107>> :> Str(<<107, 101, 121, 32, 99, 111, 117, 110, 116>>))
        @@ (<<97, 110, 105, 109, 46, 97, 100>> :> Str(<<97, 110, 105, 109, 97, 116, 105, 111, 110, 32, 100, 97, 116, 97, 32, 40, 102, 117, 108, 108, 41>>)))

\* for (short, full) in id_map.iter(): the first short id, in the order of the keys,
\* that stands for full_id
short_for_id(id_map, full_id) ==
    LET keys == SortedKeys(DOMAIN id_map)
        hits == { c \in 1..Len(keys) : id_map[keys[c]] = full_id }
    IN  IF hits = {} THEN None
        ELSE Some(keys[CHOOSE c \in hits : \A e \in hits : c <= e])

\* full_id, or short_for_id(..).unwrap_or_else(|| full_id)
KeyFor(full_ids, id_map, full_id) ==
    IF full_ids \/ ~short_for_id(id_map, full_id).some THEN full_id
    ELSE short_for_id(id_map, full_id).x

\* node_map[id]: name and type of the node inserted last under the id (the label is
\* not read by the JSON export)
NodeMeta(nodes, id) ==
    LET hits == { c \in 1..Len(nodes) : IdOf(nodes[c]) = Some(id) }
        node == nodes[CHOOSE c \in hits : \A e \in hits : c >= e]
        name == AsStr(GetKey(node, SName))
        typ == AsStr(GetKey(node, KType))
    IN  [name |-> IF name.some THEN name.x ELSE <<>>, typ |-> IF typ.some THEN typ.x ELSE <<>>]

\* the loops that push the edges, with the flag json_inputs
RECURSIVE SlotEdges(_, _, _, _, _)
SlotEdges(es, inputs, to_id, i, with_input) ==
    IF i >= Len(inputs) THEN es
    ELSE SlotEdges(InputEdges(es, inputs[i + 1], to_id, i, with_input),
                   inputs, to_id, i + 1, with_input)

RECURSIVE NodeEdges(_, _, _)
NodeEdges(es, nodes, with_input) ==
    IF nodes = <<>> THEN es
    ELSE LET to_id == IdOf(Head(nodes))
             inputs == AsArray(GetKey(Head(nodes), KInputs))
         IN  NodeEdges(IF to_id.some /\ inputs.some
                       THEN SlotEdges(es, inputs.x, to_id.x, 0, with_input) ELSE es,
                       Tail(nodes), with_input)

\* outputs_used: the pairs of a source node and an output index that an edge names
\* (a negative from_index, cast to usize, is beyond every index)
OutputsUsed(es) == { <<es[c].v[Kf].v, es[c].v[Kfo].v>> : c \in 1..Len(es) }

extract_input_value(input) ==
    LET r == GetKey(input, KR)
    IN  IF ~r.some THEN None
        ELSE IF GetKey(r.x, KD).some THEN GetKey(r.x, KD)
        ELSE IF IsArr(r.x) THEN r
        ELSE None

anim_meta_map(anim, key_count, raw_anim, mode) ==
    IF ~anim THEN None
    ELSE Some((Kan :> Bool(TRUE))
              @@ (IF key_count.some THEN (Kk :> Num(key_count.x)) ELSE <<>>)
              @@ (IF mode = "Full" /\ raw_anim.some THEN (Kad :> raw_anim.x) ELSE <<>>))

\* the value of the slot and its animation fields
extract_input_value_with_anim(input, mode) ==
    LET r == GetKey(input, KR)
        d == IF r.some THEN GetKey(r.x, KD) ELSE None
        is_array == r.some /\ IsArr(r.x)
        flag == GetKey(input, KAnim)
        anim == \/ r.some /\ IsObj(r.x)
                \/ is_array
                \/ flag.some /\ IsBool(flag.x) /\ flag.x.v
        key_count == IF is_array THEN Some(Len(r.x.v)) ELSE None
        raw_anim == IF is_array /\ mode = "Full" THEN r ELSE None
    IN  IF d.some
        THEN [val |-> d,
              meta |-> anim_meta_map(FALSE, Some(1), IF mode = "Full" THEN r ELSE None, mode)]
        ELSE [val |-> extract_input_value(input),
              meta |-> anim_meta_map(anim, key_count, raw_anim, mode)]

extract_connection(input, full_ids, id_map) ==
    LET from == AsStr(GetKey(input, KFromNode))
        from_index == AsI64(GetKey(input, KFromIndex))
        from_tag == AsI64(GetKey(input, KFromTag))
    IN  IF ~from.some \/ ~from_index.some THEN None
        ELSE Some(Obj((Kf :> Str(KeyFor(full_ids, id_map, from.x)))
                      @@ (Kfo :> Num(from_index.x))
                      @@ (IF from_tag.some THEN (Ktg :> Num(from_tag.x)) ELSE <<>>)))

\* the name and the type the registry has for the port at index i
PortFields(reg_node, ports, i) ==
    IF ~reg_node.some \/ i >= Len(ports) THEN <<>>
    ELSE LET port == ports[i + 1]
         IN  (IF port.name.some THEN (Kn :> Str(port.name.x)) ELSE <<>>)
             @@ (IF port.ty.some /\ port.ty.x # <<117, 110, 107, 110, 111, 119, 110>> /\ port.ty.x # <<111, 117, 116, 112, 117, 116>>
                 THEN (Kt :> Str(port.ty.x)) ELSE <<>>)

\* the entry of the input slot at index i
InputEntry(input, i, reg_node, mode, with_input, full_ids, id_map) ==
    LET ex == extract_input_value_with_anim(input, mode)
        conn == extract_connection(input, full_ids, id_map)
        attri == GetKey(input, KAttri)
    IN  (Ks :> Num(i))
        @@ PortFields(reg_node, IF reg_node.some THEN reg_node.x.inputs ELSE <<>>, i)
        @@ (IF ex.val.some /\ ~(IsNum(ex.val.x) /\ ex.val.x.v = Placeholder)
            THEN (Kv :> ex.val.x) ELSE <<>>)
        @@ (IF ex.meta.some THEN ex.meta.x ELSE <<>>)
        @@ (IF conn.some THEN (Kc :> conn.x) ELSE <<>>)
        @@ (IF attri.some THEN (Ka :> attri.x) ELSE <<>>)
        @@ (IF with_input THEN (Kraw :> input) ELSE <<>>)

\* a Compact mode that lists every port
IncludeAll(mode, entry) == mode # "Summary"

\* let include = match mode { .. }
IncludePort(mode, entry) ==
    CASE mode = "Summary" -> FALSE
      [] mode = "Compact" -> Kc \in DOMAIN entry \/ Ka \in DOMAIN entry
      [] mode = "Full" -> TRUE

\* the entry of the output at index i
OutputEntry(i, reg_node) ==
    (IF i # 0 THEN (Ks :> Num(i)) ELSE <<>>)
    @@ PortFields(reg_node, IF reg_node.some THEN reg_node.x.outputs ELSE <<>>, i)

\* a Compact mode that lists the outputs no edge names as well
OutputListedUnused(mode, used, entry) ==
    mode # "Compact" \/ Cardinality(DOMAIN entry) > 1

\* whether the loop over the outputs pushes the entry of index i
OutputListed(mode, used, entry) ==
    mode # "Compact" \/ (used /\ Cardinality(DOMAIN entry) > 1)

F64Or0(o) == IF o.some /\ IsNum(o.x) THEN o.x ELSE Num(0)

build_node_dump(node_meta, nodes, id, mode, include_ids, include_pos, with_input, full_ids, id_map, registry, outputs_used) ==
    LET base == (IF include_ids THEN (KId :> Str(id)) ELSE <<>>)
                @@ (Kn :> Str(node_meta.name)) @@ (Kt :> Str(node_meta.typ))
        node == nodes[CHOOSE c \in 1..Len(nodes) :
                      /\ IdOf(nodes[c]) = Some(id)
                      /\ \A e \in 1..(c - 1) : IdOf(nodes[e]) # Some(id)]
        reg_node == RegGet(registry, node_meta.typ)
        inputs == AsArray(GetKey(node, KInputs))
        outputs == AsArray(GetKey(node, KOutputs))
        entries == [c \in 1..Len(inputs.x) |->
                      InputEntry(inputs.x[c], c - 1, reg_node, mode, with_input, full_ids, id_map)]
        listed(entry) == IncludePort(mode, entry)
        ins == SelectSeq(entries, listed)
        outEntries == [c \in 1..Len(outputs.x) |-> OutputEntry(c - 1, reg_node)]
        outAt == { c \in 1..Len(outputs.x) :
                     OutputListed(mode, <<id, c - 1>> \in outputs_used, outEntries[c]) }
        outs == [c \in 1..Cardinality(outAt) |->
                   outEntries[CHOOSE e \in outAt : Cardinality({ g \in outAt : g < e }) = c - 1]]
    IN  IF mode = "Summary" THEN Obj(base)
        ELSE Obj(base
                 @@ (IF include_pos
                     THEN (Kp :> Arr(<<F64Or0(GetKey(node, KX)), F64Or0(GetKey(node, KY))>>)) ELSE <<>>)
                 @@ (IF GetKey(node, KAttri).some /\ mode # "Compact"
                     THEN (Ka :> GetKey(node, KAttri).x) ELSE <<>>)
                 @@ (IF inputs.some /\ ins # <<>>
                     THEN (Ki :> Arr([c \in 1..Len(ins) |-> Obj(ins[c])])) ELSE <<>>)
                 @@ (IF outputs.some /\ outs # <<>>
                     THEN (Ko :> Arr([c \in 1..Len(outs) |-> Obj(outs[c])])) ELSE <<>>))

Flags(b, include_ids, with_inputs, full_ids, registry) ==
    [include_id_map |-> b, include_ids |-> include_ids, include_pos |-> b,
     json_inputs |-> with_inputs, full_ids |-> full_ids, include_edges |-> b,
     registry |-> registry]

graph_json_from_pxc(json, mode, fl) ==
    LET nodes == NodesOf(json)
        id_list == IdList(nodes.x)
        id_map == IF fl.full_ids THEN <<>> ELSE IdMap(nodes.x)
        es == NodeEdges(<<>>, nodes.x, fl.json_inputs)
        ids == { id_list[c] : c \in 1..Len(id_list) }
        out_nodes == [key \in { KeyFor(fl.full_ids, id_map, id) : id \in ids } |->
                        LET id == CHOOSE id \in ids : KeyFor(fl.full_ids, id_map, id) = key
                        IN  build_node_dump(NodeMeta(nodes.x, id), nodes.x, id, mode,
                                            fl.include_ids, fl.include_pos, fl.json_inputs,
                                            fl.full_ids, id_map, fl.registry, OutputsUsed(es))]
        out_edges == [c \in 1..Len(es) |->
                        MapInsert(MapInsert(es[c], Kf,
                                            Str(KeyFor(fl.full_ids, id_map, es[c].v[Kf].v))),
                                  Kt, Str(KeyFor(fl.full_ids, id_map, es[c].v[Kt].v)))]
    IN  IF ~nodes.some THEN Err("no nodes array found")
        ELSE Ok(Obj((IF fl.include_id_map
                     THEN (KM :> IF fl.full_ids THEN Null
                                 ELSE Obj([short \in DOMAIN id_map |-> Str(id_map[short])]))
                     ELSE <<>>)
                    @@ (Kl :> Legend)
                    @@ (Kn :> Obj(out_nodes))
                    @@ (IF fl.include_edges THEN (Ke :> Arr(out_edges)) ELSE <<>>)))

(***************************************************************************)
(* Specification SpecDump: a document is exported with one set of flags in *)
(* the three detail modes.                                                 *)
(***************************************************************************)
GraphMode == { "Summary", "Compact", "Full" }

MaxKeys == 2

\* the registry of the export: the inputs of Reg; outputs "out" of type "surface",
\* "mask" without a type, and an unnamed one of type "unknown"
DumpReg ==
    [nodes |-> (TG :> RegistryNode(Reg.nodes[TG].inputs,
        << RegistryPort(Some(NOut), Some(<<115, 117, 114, 102, 97, 99, 101>>)),
           RegistryPort(Some(<<109, 97, 115, 107>>), None),
           RegistryPort(None, Some(<<117, 110, 107, 110, 111, 119, 110>>)) >>))]

NoReg == [nodes |-> <<>>]

Keys(count) == Arr([c \in 1..count |-> Num(c)])

\* the slots: a stored value, the placeholder, keys, an r without d, the anim flag
\* alone and next to a stored value, a flag that is no boolean, a connection alone,
\* with keys and with a stored value and the flag, attributes, a raw r, no object
DumpSlots ==
    { Stored(Num(1)), Stored(Num(Placeholder)),
      Obj(KR :> Keys(MaxKeys)), Obj(KR :> Obj(KX :> Num(1))), Obj(KR :> EmptyObj),
      Obj(KAnim :> Bool(TRUE)), Obj(KAnim :> Bool(FALSE)), Obj(KAnim :> Num(1)),
      MapInsert(Stored(Num(1)), KAnim, Bool(TRUE)),
      Link(N2, 2), MapInsert(Link(N2, 0), KFromTag, Num(3)),
      MapInsert(Link(N2, 1), KR, Keys(MaxKeys)),
      MapInsert(MapInsert(Link(N1, 0), KR, Obj(KD :> Num(2))), KAnim, Bool(TRUE)),
      MapInsert(Obj(KR :> Keys(1)), KAttri, Obj(Ka :> Num(1))),
      MapInsert(Obj(KR :> Obj(KX :> Num(1))), KAttri, Null),
      Obj(KAttri :> Num(0)),
      Obj(KR :> Num(5)), Null, EmptyObj }

DumpNode(id, type, name, inputs, outputs) ==
    Obj((KId :> Str(id)) @@ (KType :> Str(type)) @@ (SName :> Str(name))
        @@ (KX :> Num(3)) @@ (KY :> Num(4)) @@ (KAttri :> Obj(Ka :> Num(1)))
        @@ (KInputs :> Arr(inputs)) @@ (KOutputs :> Arr(outputs)))

\* n2 (known type, three outputs) behind the slot under test and a slot fed by n2:1
DumpDocs ==
    { Obj(KNodes :> Arr(<<
          DumpNode(N1, TG, <<120>>, <<slot, Link(N2, 1)>>, <<EmptyObj>>),
          DumpNode(N2, TG, <<121>>, <<>>, <<EmptyObj, EmptyObj, EmptyObj>>) >>)) :
        slot \in DumpSlots }
    \cup { EditDoc1, EditDoc2, EditDoc3,
           Obj(KNodes :> Arr(<<NodeN1, NodeN2, NodeN3>>)),
           Obj(KNodes :> Arr(<<>>)), EmptyObj, Obj(KNodes :> Num(1)) }

FlagSets ==
    { Flags(b, ids, ji, full, registry) :
        b \in BOOLEAN, ids \in BOOLEAN, ji \in BOOLEAN, full \in BOOLEAN,
        registry \in { DumpReg, NoReg } }

InitDump ==
    /\ dumpDoc \in DumpDocs /\ flags \in FlagSets
    /\ exports = [mode \in GraphMode |-> None]
    /\ IdsIdle /\ PtrIdle /\ CodecIdle /\ GraphIdle /\ EditIdle /\ PreviewIdle

\* graph_json_from_pxc in one of the modes
Export ==
    /\ \E mode \in GraphMode :
          /\ exports[mode] = None
          /\ exports' = [exports EXCEPT ![mode] = Some(graph_json_from_pxc(dumpDoc, mode, flags))]
    /\ UNCHANGED <<dumpDoc, flags, idsVars, ptrVars, codecVars, graphVars, editVars,
                   previewVars>>

NextDump == Export

SpecDump == InitDump /\ [][NextDump]_vars

\* the export of a mode is made, and it is no error
Made(mode) == exports[mode].some /\ exports[mode].x.ok

\* the node dumps of an export, by their keys
DumpOf(mode) == exports[mode].x.v.v[Kn].v

\* the id of the node dumped under a key, and the first node that carries the id
IdOfKey(key) == IF flags.full_ids THEN key ELSE IdMap(NodesOf(dumpDoc).x)[key]

FirstNode(id) ==
    LET nodes == NodesOf(dumpDoc).x
    IN  nodes[CHOOSE c \in 1..Len(nodes) :
                /\ IdOf(nodes[c]) = Some(id)
                /\ \A e \in 1..(c - 1) : IdOf(nodes[e]) # Some(id)]

SlotsOf(id) == AsArray(GetKey(FirstNode(id), KInputs))
OutputsOf(id) == AsArray(GetKey(FirstNode(id), KOutputs))

\* the port entries a node dump lists
ListedInputs(dump) == IF HasKey(dump, Ki) THEN dump.v[Ki].v ELSE <<>>
ListedOutputs(dump) == IF HasKey(dump, Ko) THEN dump.v[Ko].v ELSE <<>>
OutputIndex(entry) == IF HasKey(entry, Ks) THEN entry.v[Ks].v ELSE 0

\* the same JSON value
Same(a, b) == to_string(a) = to_string(b)

\* the three conditions of the animation rule
RIsArray(slot) == GetKey(slot, KR).some /\ IsArr(GetKey(slot, KR).x)
RLacksD(slot) ==
    GetKey(slot, KR).some /\ IsObj(GetKey(slot, KR).x) /\ ~HasKey(GetKey(slot, KR).x, KD)
AnimFlag(slot) ==
    GetKey(slot, KAnim).some /\ IsBool(GetKey(slot, KAnim).x) /\ GetKey(slot, KAnim).x.v
Animated(slot) == RIsArray(slot) \/ RLacksD(slot) \/ AnimFlag(slot)

\* P(entry, slot) of every input entry an export of the mode lists
EveryListedInput(mode, P(_, _)) ==
    Made(mode) =>
        \A key \in DOMAIN DumpOf(mode) :
            \A c \in 1..Len(ListedInputs(DumpOf(mode)[key])) :
                LET entry == ListedInputs(DumpOf(mode)[key])[c]
                IN  P(entry, SlotsOf(IdOfKey(key)).x[entry.v[Ks].v + 1])

MarkedAnimated(entry) == HasKey(entry, Kan) /\ entry.v[Kan] = Bool(TRUE)

\* C21: in every export that lists input ports (Compact and Full), a listed port is
\* marked animated (an: true) exactly when its slot's r is an array, or r is an
\* object lacking d, or the slot has anim: true.
C21_AnimationDetection ==
    \A mode \in {"Compact", "Full"} :
        EveryListedInput(mode, LAMBDA entry, slot : MarkedAnimated(entry) <=> Animated(slot))

\* what does hold: the mark follows the rule on every slot whose r holds no d, and a
\* slot whose r is an object with d is never marked
AnimationDetectedUnlessStored ==
    \A mode \in {"Compact", "Full"} :
        EveryListedInput(mode, LAMBDA entry, slot :
            MarkedAnimated(entry) <=>
                (Animated(slot) /\ ~(GetKey(slot, KR).some /\ GetKey(GetKey(slot, KR).x, KD).some)))

\* a slot with a stored value and anim: true is listed in Full mode without the mark
AnimFlagMissed ==
    /\ Made("Full")
    /\ \E key \in DOMAIN DumpOf("Full") :
          \E c \in 1..Len(ListedInputs(DumpOf("Full")[key])) :
              LET entry == ListedInputs(DumpOf("Full")[key])[c]
                  slot == SlotsOf(IdOfKey(key)).x[entry.v[Ks].v + 1]
              IN  AnimFlag(slot) /\ ~MarkedAnimated(entry)

\* C22: in the Summary and Compact exports no entry of an animated slot holds the
\* slot's r (array or object) under any field, nor the field ad; the entries of a
\* Summary export list no ports at all.
C22_RawPayloadOnlyInFull ==
    /\ Made("Summary") =>
          \A key \in DOMAIN DumpOf("Summary") : ~HasKey(DumpOf("Summary")[key], Ki)
    /\ EveryListedInput("Compact", LAMBDA entry, slot :
          (RIsArray(slot) \/ RLacksD(slot)) =>
              /\ ~HasKey(entry, Kad)
              /\ \A field \in DOMAIN entry.v : ~Same(entry.v[field], GetKey(slot, KR).x))

\* what does hold: outside Full mode the field ad is never written, and only the
\* field v of a slot whose r is an array holds the payload
PayloadOnlyUnderV ==
    EveryListedInput("Compact", LAMBDA entry, slot :
        /\ ~HasKey(entry, Kad)
        /\ (RIsArray(slot) \/ RLacksD(slot)) =>
              \A field \in DOMAIN entry.v \ {Kv} : ~Same(entry.v[field], GetKey(slot, KR).x)
        /\ RLacksD(slot) => ~HasKey(entry, Kv))

\* every field of a is a field of b, with the same value
SubFields(a, b) ==
    /\ DOMAIN a.v \subseteq DOMAIN b.v
    /\ \A field \in DOMAIN a.v : Same(a.v[field], b.v[field])

\* every field of a but the port lists is a field of b; every port entry of a is part
\* of the entry b has for the same port
NodeWithin(a, b) ==
    /\ DOMAIN a.v \ {Ki, Ko} \subseteq DOMAIN b.v
    /\ \A field \in DOMAIN a.v \ {Ki, Ko} : Same(a.v[field], b.v[field])
    /\ \A c \in 1..Len(ListedInputs(a)) :
          \E e \in 1..Len(ListedInputs(b)) :
              /\ ListedInputs(a)[c].v[Ks] = ListedInputs(b)[e].v[Ks]
              /\ SubFields(ListedInputs(a)[c], ListedInputs(b)[e])
    /\ \A c \in 1..Len(ListedOutputs(a)) :
          \E e \in 1..Len(ListedOutputs(b)) :
              /\ OutputIndex(ListedOutputs(a)[c]) = OutputIndex(ListedOutputs(b)[e])
              /\ SubFields(ListedOutputs(a)[c], ListedOutputs(b)[e])

ExportWithin(small, large) ==
    (Made(small) /\ Made(large)) =>
        /\ SubFields(Obj([field \in DOMAIN exports[small].x.v.v \ {Kn} |->
                            exports[small].x.v.v[field]]),
                     exports[large].x.v)
        /\ DOMAIN DumpOf(small) = DOMAIN DumpOf(large)
        /\ \A key \in DOMAIN DumpOf(small) : NodeWithin(DumpOf(small)[key], DumpOf(large)[key])

\* an edge of the document names output i of the node id
Referenced(id, i) ==
    LET nodes == NodesOf(dumpDoc).x
    IN  \E c \in 1..Len(nodes) :
            /\ HasId(nodes[c]) /\ HasInputs(nodes[c])
            /\ \E e \in 1..Len(nodes[c].v[KInputs].v) :
                  LET slot == nodes[c].v[KInputs].v[e]
                  IN  Linked(slot) /\ slot.v[KFromNode] = Str(id) /\ slot.v[KFromIndex] = Num(i)

\* C23: with one document and one set of flags, what the Summary export holds (id, n
\* and t of each node, nothing else) is part of the Compact export, and what the
\* Compact export holds is part of the Full export; Compact lists an input port only
\* if its slot carries a connection or attributes, and an output port only if an
\* edge of the document names it; Full lists every input and every output port.
C23_DetailModesNested ==
    /\ ExportWithin("Summary", "Compact") /\ ExportWithin("Compact", "Full")
    /\ Made("Summary") =>
          \A key \in DOMAIN DumpOf("Summary") :
              DOMAIN DumpOf("Summary")[key].v \subseteq {KId, Kn, Kt}
    /\ EveryListedInput("Compact", LAMBDA entry, slot :
          IsObj(slot) /\ (Linked(slot) \/ HasKey(slot, KAttri)))
    /\ Made("Compact") =>
          \A key \in DOMAIN DumpOf("Compact") :
              \A c \in 1..Len(ListedOutputs(DumpOf("Compact")[key])) :
                  Referenced(IdOfKey(key), OutputIndex(ListedOutputs(DumpOf("Compact")[key])[c]))
    /\ Made("Full") =>
          \A key \in DOMAIN DumpOf("Full") :
              LET dump == DumpOf("Full")[key]
                  inputs == SlotsOf(IdOfKey(key))
                  outputs == OutputsOf(IdOfKey(key))
              IN  /\ Len(ListedInputs(dump)) = (IF inputs.some THEN Len(inputs.x) ELSE 0)
                  /\ \A c \in 1..Len(ListedInputs(dump)) : ListedInputs(dump)[c].v[Ks] = Num(c - 1)
                  /\ Len(ListedOutputs(dump)) = (IF outputs.some THEN Len(outputs.x) ELSE 0)
                  /\ \A c \in 1..Len(ListedOutputs(dump)) :
                        OutputIndex(ListedOutputs(dump)[c]) = c - 1

\* the three exports of a document whose n1 has a free slot and a slot fed by n2:1:
\* Compact lists one of the two inputs and one of the three outputs of n2, Full all
C23_Witness ==
    /\ \A mode \in GraphMode : Made(mode)
    /\ flags.registry = DumpReg /\ flags.full_ids
    /\ DOMAIN DumpOf("Summary") = {N1, N2}
    /\ Len(ListedInputs(DumpOf("Compact")[N1])) = 1
    /\ Len(ListedInputs(DumpOf("Full")[N1])) = 2
    /\ Len(ListedOutputs(DumpOf("Compact")[N2])) = 1
    /\ Len(ListedOutputs(DumpOf("Full")[N2])) = 3
    /\ ~HasKey(DumpOf("Summary")[N1], Ki)

====
